---------------------------- MODULE Spec2Model ----------------------------
(***************************************************************************)
(* The whiteboard of Mozzesdev/trazo as a state machine: the application   *)
(* shell (App.tsx: history, cursor, active tool), the canvas tool machine  *)
(* (canvas.tsx: preview line, selection, editing text) and the editable    *)
(* text overlay (editable-text.tsx + hooks/useEditableText.ts).            *)
(*                                                                         *)
(* One action per event handler.  React re-renders between two events, so  *)
(* a handler reads the state of the last render (its closure) and the      *)
(* effects it triggers run to quiescence before the next event: each       *)
(* action is the handler together with the effects that follow it.         *)
(*                                                                         *)
(* Representation choices:                                                 *)
(*  - history is 1-based here, currentStep is the code's 0-based cursor,   *)
(*    so the visible object set is history[currentStep + 1];               *)
(*  - an id `line-<ms>` / `text-<ms>` is the pair <<"line", ms>>;          *)
(*  - a string is a sequence of characters;                                *)
(*  - lengths are whole pixels: the pointer positions of a resize are      *)
(*    multiples of FontUnit pixels, which makes the product with the       *)
(*    resize sensitivity 0.2 a whole number;                               *)
(*  - opacities are held in hundredths (1 is 100);                         *)
(*  - null is Null (objects, reducer state) or NoId (ids).                 *)
(***************************************************************************)
EXTENDS Integers, Sequences, FiniteSets, TLC

VARIABLES
    activeTool,        \* App: useState<ToolType>
    history,           \* App: useState<CanvasObject[][]>
    currentStep,       \* App: useState(0)
    toolOptions,       \* App: useState<ToolOptions>
    isDrawing,         \* Canvas: useRef(false)
    previewLine,       \* Canvas: useState<LineObject | null>
    selectedObjectId,  \* Canvas: useState<string | null>
    editingText,       \* Canvas: useState<TextObject | null>
    et,                \* useEditableText: reducer state of the mounted overlay
    interaction,       \* useEditableText: interactionRef
    prevSize,          \* useEditableText: prevSizeRef
    prevMode,          \* useEditableText: prevModeRef
    now,               \* the clock read by Date.now()
    ev,                \* history variable: what the last handler run did
    origin             \* history variable: how the mounted overlay was opened

vars == <<activeTool, history, currentStep, toolOptions, isDrawing, previewLine,
          selectedObjectId, editingText, et, interaction, prevSize, prevMode,
          now, ev, origin>>

appVars == <<activeTool, history, currentStep, toolOptions>>
canvasVars == <<isDrawing, previewLine, selectedObjectId, editingText>>
overlayVars == <<et, interaction, prevSize, prevMode>>

-----------------------------------------------------------------------------
(* Bounds of the exploration *)

\* longest history explored (number of snapshots)
MaxHistory == 3
\* clock values are 0..MaxClock
MaxClock == 1
\* pointer-moves appended to one preview line
MaxMoves == 1
\* longest text typed into the overlay
MaxTextLen == 1
\* how far the overlay is followed: pixels away from where a pointer can put it,
\* and pixels of font size away from the default font size
MaxShift == 1

(* Program constants *)
MIN_FONT_SIZE == 8
MAX_FONT_SIZE == 150
\* 1 / 0.2, the resize sensitivity: one pixel of font size per 5 pixels
FontUnit == 5
\* Math.max(5, ...) of handleTransformEnd
MinSize == 5

Null == [type |-> "null"]
NoId == <<>>

\* canvas-space pointer positions reported by the stage, where the button goes
\* down (Pos) and where the pointer moves to (MovePos); Unresolved stands for
\* getPointerPosition() returning null
Pos == {[x |-> 10, y |-> 20]}
MovePos == {[x |-> 30, y |-> 40]}
Unresolved == [x |-> -1, y |-> -1]

\* where the Text an overlay is opened on was placed: at a press of Pos, or on
\* the top edge of the stage, from where a drag upwards leaves the canvas
TextStarts == Pos \cup {[x |-> 10, y |-> 0]}

Chars == {"a", " "}
Whitespace == {" "}

RECURSIVE Strings(_)
Strings(n) ==
    IF n = 0 THEN {<<>>}
    ELSE LET S == Strings(n - 1)
         IN S \cup {Append(s, c) : s \in {t \in S : Len(t) = n - 1}, c \in Chars}

Texts == Strings(MaxTextLen)

\* The toolbar's tools; rectangle stands for itself, circle and sticky, which no
\* branch of the stage's handlers names.
Tools == {"cursor", "pencil", "eraser", "text", "rectangle"}

DEFAULT_TOOL_OPTIONS ==
    [pencil |-> [color |-> "#000000", strokeWidth |-> 5, opacity |-> 100],
     eraser |-> [size |-> 20, mode |-> "pixel"],
     text   |-> [fontSize |-> 16, color |-> "#000000",
                 fontWeight |-> "normal"]]

-----------------------------------------------------------------------------
(* Pure helpers *)

Max(a, b) == IF a >= b THEN a ELSE b
Min(a, b) == IF a <= b THEN a ELSE b

\* String.prototype.trim
RECURSIVE TrimLeft(_)
TrimLeft(s) ==
    IF s = <<>> THEN s
    ELSE IF Head(s) \in Whitespace THEN TrimLeft(Tail(s)) ELSE s

RECURSIVE TrimRight(_)
TrimRight(s) ==
    IF s = <<>> THEN s
    ELSE IF s[Len(s)] \in Whitespace THEN TrimRight(SubSeq(s, 1, Len(s) - 1))
    ELSE s

Trim(s) == TrimRight(TrimLeft(s))

\* Array.prototype.findIndex on ids: the first 1-based index, 0 for -1
RECURSIVE FindIndexFrom(_, _, _)
FindIndexFrom(objs, id, i) ==
    IF i > Len(objs) THEN 0
    ELSE IF objs[i].id = id THEN i
    ELSE FindIndexFrom(objs, id, i + 1)

FindIndex(objs, id) == FindIndexFrom(objs, id, 1)

\* Array.prototype.some / find on ids
HasId(objs, id) == \E i \in 1..Len(objs) : objs[i].id = id

\* history[currentStep] || []
CurrentObjects(h, c) == IF c + 1 \in 1..Len(h) THEN h[c + 1] ELSE <<>>

\* history.slice(0, currentStep + 1)
SliceToStep(h, c) == SubSeq(h, 1, Min(c + 1, Len(h)))

-----------------------------------------------------------------------------
(* App.tsx *)

SetState(h, c) == [set |-> TRUE, history |-> h, currentStep |-> c]
NoSetState == [set |-> FALSE]

\* Faulty variants of addObject: one that keeps the snapshots after the cursor,
\* one that leaves the cursor where it was
addObjectKeepingRedo(h, c, newObject) ==
    SetState(Append(h, Append(CurrentObjects(h, c), newObject)), Len(h))

addObjectStaying(h, c, newObject) ==
    SetState(Append(SliceToStep(h, c), Append(CurrentObjects(h, c), newObject)), c)

\* A faulty variant of addObject: the new object is put below the others
addObjectInFront(h, c, newObject) ==
    SetState(Append(SliceToStep(h, c), <<newObject>> \o CurrentObjects(h, c)),
             Len(SliceToStep(h, c)))

\* addObject: computed from the history and cursor of the render it closes over
addObject(h, c, newObject) ==
    LET currentObjects == CurrentObjects(h, c)
        newObjects     == Append(currentObjects, newObject)
        newHistory     == SliceToStep(h, c)
    IN SetState(Append(newHistory, newObjects), Len(newHistory))

\* A faulty variant of updateObject: an object whose id is not found is appended
updateObjectAppending(h, c, updatedObject) ==
    LET currentObjects == CurrentObjects(h, c)
        objectIndex    == FindIndex(currentObjects, updatedObject.id)
        newObjects     == IF objectIndex = 0
                          THEN Append(currentObjects, updatedObject)
                          ELSE [currentObjects EXCEPT ![objectIndex] = updatedObject]
        newHistory     == SliceToStep(h, c)
    IN SetState(Append(newHistory, newObjects), Len(newHistory))

\* updateObject: returns without a setState when the id is not found
updateObject(h, c, updatedObject) ==
    LET currentObjects == CurrentObjects(h, c)
        objectIndex    == FindIndex(currentObjects, updatedObject.id)
        newObjects     == [currentObjects EXCEPT ![objectIndex] = updatedObject]
        newHistory     == SliceToStep(h, c)
    IN IF objectIndex = 0 THEN NoSetState
       ELSE SetState(Append(newHistory, newObjects), Len(newHistory))

canUndo == currentStep > 0
canRedo == currentStep < Len(history) - 1
objects == CurrentObjects(history, currentStep)

\* One host call made by a handler: onAddObject or onUpdateObject with its argument
Call(op, obj) == [op |-> op, obj |-> obj]

CallResult(h, c, call) ==
    IF call.op = "addObject" THEN addObject(h, c, call.obj)
    ELSE updateObject(h, c, call.obj)

\* The calls of one handler run all close over the same render: each computes its
\* setHistory / setCurrentStep values from (h, c), and the last value set wins.
RECURSIVE RunCalls(_, _, _)
RunCalls(calls, h, c) ==
    IF calls = <<>> THEN NoSetState
    ELSE LET last == CallResult(h, c, calls[Len(calls)])
         IN IF last.set THEN last
            ELSE RunCalls(SubSeq(calls, 1, Len(calls) - 1), h, c)

\* What the last handler run did: its onAddObject / onUpdateObject calls and the
\* overlay notifications behind them; for a history button, which button it was
\* (op) and the object set shown before an undo (shown; kept by a redo that
\* follows the undo directly); for a run that closed the overlay, how that
\* overlay had been opened (op)
NotShown == <<Null>>
HistoryEvent(op, shown) ==
    [calls |-> <<>>, notes |-> <<>>, op |-> op, shown |-> shown]
OverlayEvent(calls, notes, opened) ==
    [calls |-> calls, notes |-> notes, op |-> opened, shown |-> NotShown]
Event(calls, notes) == OverlayEvent(calls, notes, "")

-----------------------------------------------------------------------------
(* hooks/useEditableText.ts *)

initialState ==
    [x |-> 100, y |-> 100, width |-> 200, height |-> 100,
     fontSize |-> 24, text |-> <<>>, interactionMode |-> "IDLE"]

InitInteraction ==
    [startX |-> 0, startY |-> 0, startFontSize |-> 0, startBoxX |-> 0,
     startBoxY |-> 0, direction |-> ""]

NoSize == [width |-> 0, height |-> 0]

Directions == {"top-left", "top-right", "bottom-left", "bottom-right"}
IsLeft(d) == d \in {"top-left", "bottom-left"}
IsTop(d) == d \in {"top-left", "top-right"}

reducer(state, action) ==
    CASE action.type = "START_INTERACTION" ->
            [state EXCEPT !.interactionMode = action.mode]
      [] action.type = "END_INTERACTION" ->
            [state EXCEPT !.interactionMode = "IDLE"]
      [] action.type = "UPDATE_POSITION" ->
            [state EXCEPT !.x = action.x, !.y = action.y]
      [] action.type = "UPDATE_FONT_SIZE" ->
            [state EXCEPT !.fontSize = action.fontSize]
      [] action.type = "UPDATE_CONTAINER_SIZE" ->
            [state EXCEPT !.width = action.width, !.height = action.height]
      [] action.type = "START_EDIT" ->
            [state EXCEPT !.interactionMode = "EDITING"]
      [] action.type = "UPDATE_TEXT" ->
            [state EXCEPT !.text = action.text]
      [] action.type = "END_EDIT" ->
            [state EXCEPT !.interactionMode = "IDLE"]
      [] action.type = "KEYBOARD_MOVE" ->
            [state EXCEPT !.x = state.x + action.deltaX,
                          !.y = state.y + action.deltaY]
      [] OTHER -> state

\* The hidden measurement <div> (white-space: pre) showing the text, or the
\* placeholder when the text is empty, at the current font size: its scrollWidth
\* and scrollHeight.  The browser's layout is taken to be that of a fixed-pitch
\* font: one font size per character wide, one font size high.
PlaceholderLen == 17
Measure(text, fontSize) ==
    LET shown == IF text = <<>> THEN PlaceholderLen ELSE Len(text)
    IN [width |-> shown * fontSize, height |-> fontSize]

\* A faulty variant of the measurement effect: the size is never replaced
MeasureEffectStale(state) == state

\* The measurement layout effect
MeasureEffect(state) ==
    LET m == Measure(state.text, state.fontSize)
    IN IF m.width # state.width \/ m.height # state.height
       THEN reducer(state, [type |-> "UPDATE_CONTAINER_SIZE",
                            width |-> m.width, height |-> m.height])
       ELSE state

\* A faulty variant of the anchor-correction effect: prevSizeRef is not brought
\* up to date after a correction
AnchorEffectForgetful(state, inter, ps) ==
    LET size == [width |-> state.width, height |-> state.height]
        dw   == state.width - ps.width
        dh   == state.height - ps.height
        newX == IF IsLeft(inter.direction) THEN state.x - dw ELSE state.x
        newY == IF IsTop(inter.direction) THEN state.y - dh ELSE state.y
    IN IF state.interactionMode # "RESIZING"
       THEN [et |-> state, prevSize |-> size]
       ELSE IF inter.direction = "" THEN [et |-> state, prevSize |-> ps]
       ELSE IF dw = 0 /\ dh = 0 THEN [et |-> state, prevSize |-> ps]
       ELSE [et |-> reducer(state, [type |-> "UPDATE_POSITION",
                                    x |-> newX, y |-> newY]),
             prevSize |-> ps]

\* The anchor-correction layout effect: the state and prevSizeRef it leaves
AnchorEffect(state, inter, ps) ==
    LET size == [width |-> state.width, height |-> state.height]
        dw   == state.width - ps.width
        dh   == state.height - ps.height
        newX == IF IsLeft(inter.direction) THEN state.x - dw ELSE state.x
        newY == IF IsTop(inter.direction) THEN state.y - dh ELSE state.y
    IN IF state.interactionMode # "RESIZING"
       THEN [et |-> state, prevSize |-> size]
       ELSE IF inter.direction = "" THEN [et |-> state, prevSize |-> ps]
       ELSE IF dw = 0 /\ dh = 0 THEN [et |-> state, prevSize |-> ps]
       ELSE [et |-> reducer(state, [type |-> "UPDATE_POSITION",
                                    x |-> newX, y |-> newY]),
             prevSize |-> size]

\* The layout effects run to quiescence after a dispatch
Settle(state, inter, ps) == AnchorEffect(MeasureEffect(state), inter, ps)

\* useReducer(reducer, {...initialState, ...customInitialState})
MountState(obj) == obj @@ initialState

-----------------------------------------------------------------------------
(* canvas.tsx *)

\* Date.now(): the clock never runs backwards, and two readings can fall in
\* the same millisecond
Readings == now..MaxClock

\* A faulty variant of the new line: its style is the default one
NewLineDefault(t, pos) ==
    [id |-> <<"line", t>>, type |-> "line", points |-> <<pos.x, pos.y>>,
     x |-> 0, y |-> 0,
     color |-> DEFAULT_TOOL_OPTIONS.pencil.color,
     strokeWidth |-> IF activeTool = "eraser" THEN DEFAULT_TOOL_OPTIONS.eraser.size
                     ELSE DEFAULT_TOOL_OPTIONS.pencil.strokeWidth,
     opacity |-> DEFAULT_TOOL_OPTIONS.pencil.opacity,
     globalCompositeOperation |-> IF activeTool = "eraser" THEN "destination-out"
                                  ELSE "source-over"]

\* A faulty variant of the new line: the coordinates of its point are swapped
NewLineFlipped(t, pos) ==
    [id |-> <<"line", t>>, type |-> "line", points |-> <<pos.y, pos.x>>,
     x |-> 0, y |-> 0,
     color |-> toolOptions.pencil.color,
     strokeWidth |-> IF activeTool = "eraser" THEN toolOptions.eraser.size
                     ELSE toolOptions.pencil.strokeWidth,
     opacity |-> toolOptions.pencil.opacity,
     globalCompositeOperation |-> IF activeTool = "eraser" THEN "destination-out"
                                  ELSE "source-over"]

NewLine(t, pos) ==
    [id |-> <<"line", t>>, type |-> "line", points |-> <<pos.x, pos.y>>,
     x |-> 0, y |-> 0,
     color |-> toolOptions.pencil.color,
     strokeWidth |-> IF activeTool = "eraser" THEN toolOptions.eraser.size
                     ELSE toolOptions.pencil.strokeWidth,
     opacity |-> toolOptions.pencil.opacity,
     globalCompositeOperation |-> IF activeTool = "eraser" THEN "destination-out"
                                  ELSE "source-over"]

NewText(t, pos) ==
    [id |-> <<"text", t>>, type |-> "text", x |-> pos.x, y |-> pos.y,
     text |-> <<>>,
     color |-> toolOptions.text.color,
     fontSize |-> toolOptions.text.fontSize,
     fontWeight |-> toolOptions.text.fontWeight,
     fontFamily |-> "sans-serif",
     width |-> 200, height |-> 50, rotation |-> 0, opacity |-> 100,
     interactionMode |-> "EDITING"]

\* {...editingText, ...state}
MergeState(editing, state) == state @@ editing

\* A faulty variant of handleTextUpdate: the update does not reach the host
handleTextUpdateCallsNone(updatedText) == <<>>

\* handleTextUpdate: the host calls it makes
handleTextUpdateCalls(updatedText) == <<Call("updateObject", updatedText)>>

\* A faulty variant of handleTextEditEnd: the text is not trimmed
handleTextEditEndCallsUntrimmed(objs, finalTextObject) ==
    IF finalTextObject.text = <<>> THEN <<>>
    ELSE IF HasId(objs, finalTextObject.id)
         THEN <<Call("updateObject", finalTextObject)>>
         ELSE <<Call("addObject", finalTextObject)>>

\* A faulty variant of handleTextEditEnd: the text is taken to be in the objects
handleTextEditEndCallsUpdating(objs, finalTextObject) ==
    IF Trim(finalTextObject.text) = <<>> THEN <<>>
    ELSE <<Call("updateObject", finalTextObject)>>

\* handleTextEditEnd: the host calls it makes, from the objects of its render
handleTextEditEndCalls(objs, finalTextObject) ==
    IF Trim(finalTextObject.text) = <<>> THEN <<>>
    ELSE IF HasId(objs, finalTextObject.id)
         THEN <<Call("updateObject", finalTextObject)>>
         ELSE <<Call("addObject", finalTextObject)>>


Size(o) == [width |-> o.width, height |-> o.height]

\* An object of the current set is drawn (and can be clicked) unless it is the one
\* being edited: isVisible={!editingText || editingText.id !== obj.id}
Visible(o) == IF editingText = Null THEN TRUE ELSE editingText.id # o.id

\* The textarea exists, and holds the focus, exactly in EDITING mode: a mouse press
\* outside the overlay blurs it before the pressed control's handler runs
Focused == et # Null /\ et.interactionMode = "EDITING"

\* The mouse button is down from the overlay's mousedown to the window's mouseup,
\* that is while the overlay is DRAGGING or RESIZING: nothing else can be pressed
Held == et # Null /\ et.interactionMode \in {"DRAGGING", "RESIZING"}

\* A control outside the overlay can be pressed
Pressable == ~Focused /\ ~Held

\* setHistory / setCurrentStep as requested by the calls of this handler run
Commit(calls) ==
    LET r == RunCalls(calls, history, currentStep)
    IN IF r.set
       THEN /\ Len(r.history) <= MaxHistory
            /\ history' = r.history
            /\ currentStep' = r.currentStep
       ELSE UNCHANGED <<history, currentStep>>

\* <EditableText key={editingText.id} initialState={editingText} /> mounts
Mount(obj) ==
    LET st == Settle(MountState(obj), InitInteraction, Size(MountState(obj)))
    IN /\ et' = st.et
       /\ prevSize' = st.prevSize
       /\ interaction' = InitInteraction
       /\ prevMode' = st.et.interactionMode

Unmount ==
    /\ et' = Null
    /\ prevSize' = NoSize
    /\ interaction' = InitInteraction
    /\ prevMode' = "IDLE"

Init ==
    /\ activeTool = "cursor"
    /\ history = << <<>> >>
    /\ currentStep = 0
    /\ toolOptions = DEFAULT_TOOL_OPTIONS
    /\ isDrawing = FALSE
    /\ previewLine = Null
    /\ selectedObjectId = NoId
    /\ editingText = Null
    /\ et = Null
    /\ prevSize = NoSize
    /\ interaction = InitInteraction
    /\ prevMode = "IDLE"
    /\ now = 0
    /\ ev = Event(<<>>, <<>>)
    /\ origin = "none"

-----------------------------------------------------------------------------
(* Toolbar (App.tsx) *)

\* Faulty variants of the cursor moves: an undo back to the first snapshot, a
\* redo forward to the last one
UndoToStart(c) == 0
RedoToLast(h, c) == Len(h) - 1

\* the cursor set by handleUndo / handleRedo
UndoCursor(c) == IF c > 0 THEN c - 1 ELSE c
RedoCursor(h, c) == IF c < Len(h) - 1 THEN c + 1 ELSE c

\* the undo button, disabled={!canUndo}
handleUndo ==
    /\ Pressable
    /\ canUndo
    /\ currentStep' = UndoCursor(currentStep)
    /\ ev' = HistoryEvent("undo", objects)
    /\ UNCHANGED <<activeTool, history, toolOptions, canvasVars, overlayVars, now,
                   origin>>

\* the redo button, disabled={!canRedo}
handleRedo ==
    /\ Pressable
    /\ canRedo
    /\ currentStep' = RedoCursor(history, currentStep)
    /\ ev' = HistoryEvent("redo", IF ev.op = "undo" THEN ev.shown ELSE NotShown)
    /\ UNCHANGED <<activeTool, history, toolOptions, canvasVars, overlayVars, now,
                   origin>>

\* A faulty variant of the cleared history: the redo branch survives
ClearedKeepingRedo == << <<>> >> \o SubSeq(history, currentStep + 2, Len(history))

\* A faulty variant of the cleared history: no snapshot is left
ClearedWithoutSnapshot == <<>>

\* setHistory([[]])
ClearedHistory == << <<>> >>

onClear ==
    /\ Pressable
    /\ history' = ClearedHistory
    /\ currentStep' = 0
    /\ ev' = HistoryEvent("clear", NotShown)
    /\ UNCHANGED <<activeTool, toolOptions, canvasVars, overlayVars, now, origin>>

setActiveTool(tool) ==
    /\ Pressable
    /\ tool # activeTool
    /\ activeTool' = tool
    /\ ev' = Event(<<>>, <<>>)
    /\ UNCHANGED <<history, currentStep, toolOptions, canvasVars, overlayVars, now,
                   origin>>

\* the option changes explored: those the next stroke carries
ToolOptionUpdates ==
    {[pencil |-> [strokeWidth |-> 10]], [pencil |-> [color |-> "#ff0000"]],
     [pencil |-> [opacity |-> 50]], [eraser |-> [size |-> 30]]}

\* updates.<tool>?.<field> ?? <tool>.<field>
Nullish(updates, tool, field, old) ==
    IF tool \in DOMAIN updates /\ field \in DOMAIN updates[tool]
    THEN updates[tool][field]
    ELSE old

\* updateToolOptions of the toolbar, handed to setToolOptions
updateToolOptions(updates) ==
    /\ Pressable
    /\ toolOptions' =
          [tool \in DOMAIN toolOptions |->
             [field \in DOMAIN toolOptions[tool] |->
                Nullish(updates, tool, field, toolOptions[tool][field])]]
    /\ toolOptions' # toolOptions
    /\ ev' = Event(<<>>, <<>>)
    /\ UNCHANGED <<activeTool, history, currentStep, canvasVars, overlayVars, now,
                   origin>>

-----------------------------------------------------------------------------
(* Stage handlers (canvas.tsx) *)

\* A faulty variant of the position test: every position counts as resolved
ResolvedAlways(pos) == TRUE

\* if (!pos) return
Resolved(pos) == pos # Unresolved

\* A faulty variant of the deselection: a press on the empty stage keeps it
SelectionKept(clickedOnEmpty) == selectedObjectId

\* if (clickedOnEmpty) setSelectedObjectId(null)
SelectionAfterDown(clickedOnEmpty) ==
    IF clickedOnEmpty THEN NoId ELSE selectedObjectId

\* A faulty variant of the guard of handleMouseDown: it never holds
EditingNever == FALSE

\* if (editingText) return;
Editing == editingText # Null

handleMouseDown(pos, clickedOnEmpty) ==
    /\ ~Held
    /\ ev' = Event(<<>>, <<>>)
    /\ UNCHANGED appVars
    /\ IF Editing
       THEN UNCHANGED <<canvasVars, overlayVars, now, origin>>
       ELSE IF activeTool \in {"pencil", "eraser"}
       THEN /\ isDrawing' = TRUE
            /\ IF ~Resolved(pos)
               THEN UNCHANGED <<previewLine, now>>
               ELSE \E t \in Readings :
                       /\ now' = t
                       /\ previewLine' = NewLine(t, pos)
            /\ UNCHANGED <<selectedObjectId, editingText, overlayVars, origin>>
       ELSE IF activeTool = "text"
       THEN IF ~Resolved(pos)
            THEN UNCHANGED <<canvasVars, overlayVars, now, origin>>
            ELSE \E t \in Readings :
                    /\ now' = t
                    /\ editingText' = NewText(t, pos)
                    /\ selectedObjectId' = NoId
                    /\ Mount(NewText(t, pos))
                    /\ origin' = "placement"
                    /\ UNCHANGED <<isDrawing, previewLine>>
       ELSE /\ selectedObjectId' = SelectionAfterDown(clickedOnEmpty)
            /\ UNCHANGED <<isDrawing, previewLine, editingText, overlayVars, now,
                           origin>>

\* A faulty variant of the extension: the point is put in front
ExtendedFront(line, point) == [line EXCEPT !.points = <<point.x, point.y>> \o @]

\* {...prev, points: [...prev.points, point.x, point.y]}
Extended(line, point) == [line EXCEPT !.points = @ \o <<point.x, point.y>>]

handleMouseMove(point) ==
    /\ ev' = Event(<<>>, <<>>)
    /\ previewLine # Null => Len(previewLine.points) <= 2 * MaxMoves
    /\ previewLine' =
          IF (~isDrawing) \/ previewLine = Null \/ ~Resolved(point)
          THEN previewLine
          ELSE Extended(previewLine, point)
    /\ UNCHANGED <<appVars, isDrawing, selectedObjectId, editingText, overlayVars,
                   now, origin>>

\* A faulty variant of handleMouseUp's commit: a stroke without a move is dropped
handleMouseUpCallsMoved(drawing, line) ==
    IF drawing /\ line # Null /\ Len(line.points) > 2
    THEN <<Call("addObject", line)>> ELSE <<>>

\* handleMouseUp: the host calls it makes
handleMouseUpCalls(drawing, line) ==
    IF drawing /\ line # Null THEN <<Call("addObject", line)>> ELSE <<>>

handleMouseUp ==
    LET calls == handleMouseUpCalls(isDrawing, previewLine)
    IN /\ Commit(calls)
       /\ ev' = Event(calls, <<>>)
       /\ isDrawing' = FALSE
       /\ previewLine' = Null
       /\ UNCHANGED <<activeTool, toolOptions, selectedObjectId, editingText,
                      overlayVars, now, origin>>

handleObjectClick(id) ==
    /\ Pressable
    /\ \E i \in 1..Len(objects) : objects[i].id = id /\ Visible(objects[i])
    /\ selectedObjectId' = IF activeTool = "cursor" THEN id ELSE selectedObjectId
    /\ ev' = Event(<<>>, <<>>)
    /\ UNCHANGED <<appVars, isDrawing, previewLine, editingText, overlayVars, now,
                   origin>>

handleObjectDblClick(id) ==
    /\ Pressable
    /\ \E i \in 1..Len(objects) : objects[i].id = id /\ Visible(objects[i])
    /\ ev' = Event(<<>>, <<>>)
    /\ LET object == objects[FindIndex(objects, id)]
       IN IF activeTool = "cursor" /\ object.type = "text"
          THEN /\ editingText' = object
               /\ selectedObjectId' = NoId
               /\ Mount(object)
               /\ origin' = "dblClick"
          ELSE UNCHANGED <<selectedObjectId, editingText, overlayVars, origin>>
    /\ UNCHANGED <<appVars, isDrawing, previewLine, now>>

\* Scale factors are held in ScaleUnit-ths: 4 stands for a scale of 1
ScaleUnit == 4

\* what the transformed Konva node reports: position, rotation and scale; here a
\* scale of 2 by 0, and one of -1 by 0.25
Transforms ==
    {[x |-> 7, y |-> 8, rotation |-> 90, scaleX |-> 2 * ScaleUnit, scaleY |-> 0],
     [x |-> 7, y |-> 8, rotation |-> 0, scaleX |-> 0 - ScaleUnit, scaleY |-> 1]}

\* dimension * scale, for a product that is a whole number
Scaled(dimension, scale) == (dimension * scale) \div ScaleUnit

HasSize(o) == "width" \in DOMAIN o /\ "height" \in DOMAIN o

\* A faulty variant of the transformed object: the size is not clamped
TransformedUnclamped(originalObject, node) ==
    IF HasSize(originalObject)
    THEN [x |-> node.x, y |-> node.y, rotation |-> node.rotation,
          width |-> Scaled(originalObject.width, node.scaleX),
          height |-> Scaled(originalObject.height, node.scaleY)]
         @@ originalObject
    ELSE [x |-> node.x, y |-> node.y, rotation |-> node.rotation]
         @@ originalObject

\* the object handleTransformEnd passes to onUpdateObject
Transformed(originalObject, node) ==
    IF HasSize(originalObject)
    THEN [x |-> node.x, y |-> node.y, rotation |-> node.rotation,
          width |-> Max(MinSize, Scaled(originalObject.width, node.scaleX)),
          height |-> Max(MinSize, Scaled(originalObject.height, node.scaleY))]
         @@ originalObject
    ELSE [x |-> node.x, y |-> node.y, rotation |-> node.rotation]
         @@ originalObject

\* The products of the object's dimensions and the node's scales are whole
WholeSize(objs, id, node) ==
    HasId(objs, id) /\ HasSize(objs[FindIndex(objs, id)]) =>
       /\ (objs[FindIndex(objs, id)].width * node.scaleX) % ScaleUnit = 0
       /\ (objs[FindIndex(objs, id)].height * node.scaleY) % ScaleUnit = 0

\* the host calls handleTransformEnd makes for the node with this id
handleTransformEndCalls(objs, id, node) ==
    IF ~HasId(objs, id) THEN <<>>
    ELSE <<Call("updateObject", Transformed(objs[FindIndex(objs, id)], node))>>

\* The Transformer holds the node of the selected object, and keeps it when the
\* object leaves the current set
handleTransformEnd(node) ==
    LET calls == handleTransformEndCalls(objects, selectedObjectId, node)
    IN /\ Pressable
       /\ selectedObjectId # NoId
       /\ WholeSize(objects, selectedObjectId, node)
       /\ Commit(calls)
       /\ ev' = Event(calls, <<>>)
       /\ UNCHANGED <<activeTool, toolOptions, canvasVars, overlayVars, now, origin>>

-----------------------------------------------------------------------------
(* Overlay handlers (editable-text.tsx, useEditableText.ts) *)

\* client-space position of the overlay's mousedown events
PressPoints == {[x |-> 200 * FontUnit, y |-> FontUnit]}

\* client-space positions of the window's mousemove events during a resize: one
\* FontUnit to the left, to the right, above and below the press, and two far
\* ones that take a resize to the limits of the font size
ResizePoints ==
    {[x |-> 199 * FontUnit, y |-> FontUnit], [x |-> 201 * FontUnit, y |-> FontUnit],
     [x |-> 200 * FontUnit, y |-> 0], [x |-> 200 * FontUnit, y |-> 2 * FontUnit],
     [x |-> 0, y |-> FontUnit], [x |-> 400 * FontUnit, y |-> FontUnit]}

\* the same during a drag: one pixel to the right of the press and one above it
DragPoints ==
    {[x |-> 200 * FontUnit + 1, y |-> FontUnit],
     [x |-> 200 * FontUnit, y |-> FontUnit - 1]}

\* A resize is followed in whole font-size steps, a drag in pixels
ClientPoints ==
    IF et # Null /\ et.interactionMode = "RESIZING" THEN ResizePoints
    ELSE DragPoints

Keys == {"Enter", "ArrowUp", "ArrowDown", "ArrowLeft", "ArrowRight", "Tab"}

Abs(n) == IF n < 0 THEN 0 - n ELSE n

\* The part of the overlay's state space that is explored: positions near where
\* a pointer can put the overlay, font sizes near the default and at the limits
Explored(s) ==
    /\ \E p \in TextStarts :
          Abs(s.x - p.x) <= MaxShift /\ Abs(s.y - p.y) <= MaxShift
    /\ \/ s.fontSize \in {MIN_FONT_SIZE, MAX_FONT_SIZE}
       \/ Abs(s.fontSize - DEFAULT_TOOL_OPTIONS.text.fontSize) <= MaxShift

\* A faulty variant of the mode-change effect: onDone whatever mode was left
NotificationsDone(before, after) ==
    IF before # "IDLE" /\ after = "IDLE" THEN <<"onUpdate", "onDone">> ELSE <<>>

\* The mode-change effect: the notifications it sends, in order
Notifications(before, after) ==
    IF before # "IDLE" /\ after = "IDLE"
    THEN IF before = "EDITING" THEN <<"onUpdate", "onDone">> ELSE <<"onUpdate">>
    ELSE <<>>

\* The host calls of the canvas callbacks behind the notifications:
\* onUpdate = handleTextUpdate({...editingText, ...state}),
\* onDone = handleTextEditEnd({...editingText, ...state})
RECURSIVE HostCalls(_, _, _)
HostCalls(notes, objs, merged) ==
    IF notes = <<>> THEN <<>>
    ELSE (IF Head(notes) = "onUpdate" THEN handleTextUpdateCalls(merged)
          ELSE handleTextEditEndCalls(objs, merged))
         \o HostCalls(Tail(notes), objs, merged)

\* A faulty variant of the setEditingText calls: the first value set wins
EditingTextAfterFirst(notes, editing, merged) ==
    IF notes = <<>> THEN editing
    ELSE IF Head(notes) = "onUpdate" THEN merged ELSE Null

\* editingText after the callbacks behind the notifications have run: each sets
\* it to a value (handleTextUpdate to the merged object, handleTextEditEnd to
\* null on both of its paths), and the last value set in the run wins
EditingTextAfter(notes, editing, merged) ==
    IF notes = <<>> THEN editing
    ELSE IF notes[Len(notes)] = "onUpdate" THEN merged ELSE Null

\* interactionRef is read only by the window listeners and by the anchor effect,
\* that is in DRAGGING and RESIZING mode, and handleMouseDown, the only way into
\* these modes, overwrites it whole before it dispatches.  Its value in the other
\* modes is never read again: it is kept at its initial value there, so that two
\* states that differ only in this dead value are one state.
LiveInteraction(inter, mode) ==
    IF mode \in {"DRAGGING", "RESIZING"} THEN inter ELSE InitInteraction

\* A dispatch of the overlay followed by its effects: the layout effects settle
\* the size and the anchor, then the mode-change effect notifies the host, whose
\* callbacks set editingText and request history updates.
Dispatch(action, inter) ==
    LET st     == Settle(reducer(et, action), inter, prevSize)
        s      == st.et
        notes  == Notifications(prevMode, s.interactionMode)
        merged == MergeState(editingText, s)
        calls  == HostCalls(notes, objects, merged)
        done   == \E i \in 1..Len(notes) : notes[i] = "onDone"
    IN /\ et # Null
       /\ Explored(s)
       /\ Commit(calls)
       /\ ev' = OverlayEvent(calls, notes, IF done THEN origin ELSE "")
       /\ editingText' = EditingTextAfter(notes, editingText, merged)
       /\ IF EditingTextAfter(notes, editingText, merged) = Null
          THEN Unmount /\ origin' = "none"
          ELSE /\ et' = s
               /\ prevSize' = st.prevSize
               /\ interaction' = LiveInteraction(inter, s.interactionMode)
               /\ prevMode' = s.interactionMode
               /\ UNCHANGED origin
       /\ UNCHANGED <<activeTool, toolOptions, isDrawing, previewLine,
                      selectedObjectId, now>>

\* handleMouseDown of the hook: on the text body (DRAGGING, rendered outside
\* EDITING mode) or on a resize handle (RESIZING, rendered in every mode)
etHandleMouseDown(client, mode, direction) ==
    /\ et # Null
    /\ ~Held
    /\ \/ mode = "DRAGGING" /\ direction = "" /\ et.interactionMode # "EDITING"
       \/ mode = "RESIZING" /\ direction \in Directions
    /\ Dispatch([type |-> "START_INTERACTION", mode |-> mode],
                [startX |-> client.x, startY |-> client.y,
                 startFontSize |-> et.fontSize, startBoxX |-> et.x,
                 startBoxY |-> et.y, direction |-> direction])

\* A faulty variant of the extension: every handle extends like bottom-right
ResizeExtensionPlain(direction, deltaX, deltaY) == deltaX + deltaY

\* how far the pointer has pulled the handle outwards, out of its two deltas
ResizeExtension(direction, deltaX, deltaY) ==
    CASE direction = "top-left"     -> (0 - deltaX) + (0 - deltaY)
      [] direction = "top-right"    -> deltaX + (0 - deltaY)
      [] direction = "bottom-left"  -> (0 - deltaX) + deltaY
      [] direction = "bottom-right" -> deltaX + deltaY
      [] OTHER                      -> 0

\* A faulty variant of the resized font size: no limits
ResizedFontSizeUnclamped(startFontSize, delta) ==
    startFontSize + delta \div FontUnit

\* Math.max(MIN_FONT_SIZE, Math.min(MAX_FONT_SIZE, startFontSize + delta * 0.2)),
\* for a delta that is a multiple of FontUnit
ResizedFontSize(startFontSize, delta) ==
    Max(MIN_FONT_SIZE,
        Min(MAX_FONT_SIZE, startFontSize + delta \div FontUnit))

\* A faulty variant of the dragged position: kept on the canvas
DraggedPositionClamped(inter, client) ==
    [x |-> Max(0, inter.startBoxX + (client.x - inter.startX)),
     y |-> Max(0, inter.startBoxY + (client.y - inter.startY))]

\* payload of UPDATE_POSITION: the box at the press, moved by the pointer's
\* displacement since the press
DraggedPosition(inter, client) ==
    [x |-> inter.startBoxX + (client.x - inter.startX),
     y |-> inter.startBoxY + (client.y - inter.startY)]

\* the window mousemove listener, attached while DRAGGING or RESIZING
windowMouseMove(client) ==
    /\ et # Null
    /\ et.interactionMode \in {"DRAGGING", "RESIZING"}
    /\ LET deltaX == client.x - interaction.startX
           deltaY == client.y - interaction.startY
       IN IF et.interactionMode = "DRAGGING"
          THEN Dispatch([type |-> "UPDATE_POSITION",
                         x |-> DraggedPosition(interaction, client).x,
                         y |-> DraggedPosition(interaction, client).y],
                        interaction)
          ELSE Dispatch([type |-> "UPDATE_FONT_SIZE",
                         fontSize |-> ResizedFontSize(
                             interaction.startFontSize,
                             ResizeExtension(interaction.direction, deltaX, deltaY))],
                        interaction)

\* the window mouseup listener, attached while DRAGGING or RESIZING
windowMouseUp ==
    /\ et # Null
    /\ et.interactionMode \in {"DRAGGING", "RESIZING"}
    /\ Dispatch([type |-> "END_INTERACTION"], interaction)

\* onClick of the text body
overlayClick ==
    /\ et # Null
    /\ ~Held
    /\ et.interactionMode # "EDITING"
    /\ Dispatch([type |-> "START_EDIT"], interaction)

handleTextChange(text) ==
    /\ et # Null
    /\ et.interactionMode = "EDITING"
    /\ text # et.text
    /\ Dispatch([type |-> "UPDATE_TEXT", text |-> text], interaction)

\* onBlur of the textarea, or Escape typed into it
endEdit ==
    /\ et # Null
    /\ et.interactionMode = "EDITING"
    /\ Dispatch([type |-> "END_EDIT"], interaction)

KeyAction(key, shiftKey, ctrlKey) ==
    LET step     == IF shiftKey THEN 10 ELSE 1
        fontStep == IF shiftKey THEN 2 ELSE 1
    IN CASE key = "Enter" -> [type |-> "START_EDIT"]
         [] key = "ArrowUp" /\ ctrlKey ->
               [type |-> "UPDATE_FONT_SIZE",
                fontSize |-> Min(MAX_FONT_SIZE, et.fontSize + fontStep)]
         [] key = "ArrowUp" /\ ~ctrlKey ->
               [type |-> "KEYBOARD_MOVE", deltaX |-> 0, deltaY |-> 0 - step]
         [] key = "ArrowDown" /\ ctrlKey ->
               [type |-> "UPDATE_FONT_SIZE",
                fontSize |-> Max(MIN_FONT_SIZE, et.fontSize - fontStep)]
         [] key = "ArrowDown" /\ ~ctrlKey ->
               [type |-> "KEYBOARD_MOVE", deltaX |-> 0, deltaY |-> step]
         [] key = "ArrowLeft" ->
               [type |-> "KEYBOARD_MOVE", deltaX |-> 0 - step, deltaY |-> 0]
         [] key = "ArrowRight" ->
               [type |-> "KEYBOARD_MOVE", deltaX |-> step, deltaY |-> 0]
         [] OTHER -> [type |-> "NONE"]

\* handleKeyDown of the hook: returns at once in EDITING mode
handleKeyDown(key, shiftKey, ctrlKey) ==
    /\ et # Null
    /\ Dispatch(IF et.interactionMode = "EDITING" THEN [type |-> "NONE"]
                ELSE KeyAction(key, shiftKey, ctrlKey),
                interaction)

-----------------------------------------------------------------------------
Toolbar ==
    \/ handleUndo
    \/ handleRedo
    \/ onClear
    \/ \E tool \in Tools : setActiveTool(tool)

Stage ==
    \/ \E pos \in Pos \cup {Unresolved}, empty \in BOOLEAN :
          handleMouseDown(pos, empty)
    \/ \E point \in MovePos \cup {Unresolved} : handleMouseMove(point)
    \/ handleMouseUp
    \/ \E i \in 1..Len(objects) : handleObjectClick(objects[i].id)
    \/ \E i \in 1..Len(objects) : handleObjectDblClick(objects[i].id)

\* the overlay's editing life cycle
Overlay ==
    \/ overlayClick
    \/ \E text \in Texts : handleTextChange(text)
    \/ endEdit

\* the pointer gestures on the overlay: a press on a resize handle or on the
\* text body, the moves and the release
Pointer ==
    \/ \E client \in PressPoints, direction \in Directions :
          etHandleMouseDown(client, "RESIZING", direction)
    \/ \E client \in PressPoints : etHandleMouseDown(client, "DRAGGING", "")
    \/ \E client \in ClientPoints : windowMouseMove(client)
    \/ windowMouseUp

\* the key presses on the overlay
Keyboard ==
    \E key \in Keys, shiftKey \in BOOLEAN, ctrlKey \in BOOLEAN :
       handleKeyDown(key, shiftKey, ctrlKey)

\* the Transformer of the selected object
Transformer == \E node \in Transforms : handleTransformEnd(node)

\* the toolbar's option controls
Options == \E updates \in ToolOptionUpdates : updateToolOptions(updates)

Gestures == Pointer \/ Keyboard \/ Transformer \/ Options

\* The history engine, the stage and the editing life cycle of the text overlay
Next == Toolbar \/ Stage \/ Overlay

Spec == Init /\ [][Next]_vars

\* The same with the overlay's gestures, the Transformer and the option controls
NextAll == Next \/ Gestures

SpecAll == Init /\ [][NextAll]_vars

\* An overlay is followed until the history reaches its bound
WithinHistory == Len(history) < MaxHistory

\* The gestures that commit, each as a press and a release without the moves in
\* between: pencil strokes, text edits, drags and resizes of the overlay and
\* transforms, with the undo button
NextGesture ==
    \/ handleUndo
    \/ \E tool \in {"cursor", "pencil", "text"} : setActiveTool(tool)
    \/ \E pos \in Pos : handleMouseDown(pos, TRUE)
    \/ handleMouseUp
    \/ \E i \in 1..Len(objects) : handleObjectClick(objects[i].id)
    \/ \E i \in 1..Len(objects) : handleObjectDblClick(objects[i].id)
    \/ Overlay
    \/ \E client \in PressPoints :
          etHandleMouseDown(client, "RESIZING", "top-left")
    \/ \E client \in PressPoints : etHandleMouseDown(client, "DRAGGING", "")
    \/ windowMouseUp
    \/ Transformer

SpecGesture == Init /\ [][NextGesture]_vars

\* Drawing: pencil and eraser strokes, with the tool buttons and the option
\* controls
NextDraw ==
    \/ \E tool \in {"cursor", "pencil", "eraser"} : setActiveTool(tool)
    \/ Options
    \/ \E pos \in Pos : handleMouseDown(pos, TRUE)
    \/ \E point \in MovePos : handleMouseMove(point)
    \/ handleMouseUp

SpecDraw == Init /\ [][NextDraw]_vars

\* Pencil strokes and what can happen to them once they are committed: the
\* selection, the Transformer and the history buttons
NextStroke ==
    \/ handleUndo
    \/ handleRedo
    \/ \E tool \in {"cursor", "pencil"} : setActiveTool(tool)
    \/ \E pos \in Pos : handleMouseDown(pos, TRUE)
    \/ \E point \in MovePos : handleMouseMove(point)
    \/ handleMouseUp
    \/ \E i \in 1..Len(objects) : handleObjectClick(objects[i].id)
    \/ Transformer

SpecStroke == Init /\ [][NextStroke]_vars

\* what opens a text edit: the text tool's press on the stage, and the select
\* tool's double-click on a committed Text
OpenEdit ==
    \/ \E tool \in {"cursor", "text"} : setActiveTool(tool)
    \/ \E pos \in Pos : handleMouseDown(pos, TRUE)
    \/ \E i \in 1..Len(objects) : handleObjectDblClick(objects[i].id)

\* The text sub-machine: what opens an edit, and every handler of the overlay
NextOverlay == OpenEdit \/ Overlay \/ Pointer \/ Keyboard

SpecOverlay == Init /\ [][NextOverlay]_vars

\* The Text that a placement at pos, the typing of `text` and a blur commit
CommittedText(t, pos, text) ==
    MergeState(NewText(t, pos),
               [MeasureEffect([MountState(NewText(t, pos)) EXCEPT !.text = text])
                   EXCEPT !.interactionMode = "IDLE"])

\* The states in which an overlay has just been opened by a double-click on the
\* one committed Text
InitHook ==
    /\ activeTool = "cursor"
    /\ toolOptions = DEFAULT_TOOL_OPTIONS
    /\ isDrawing = FALSE
    /\ previewLine = Null
    /\ selectedObjectId = NoId
    /\ interaction = InitInteraction
    /\ now = 0
    /\ ev = Event(<<>>, <<>>)
    /\ currentStep = 1
    /\ prevMode = "IDLE"
    /\ origin = "dblClick"
    /\ \E pos \in TextStarts :
          /\ editingText = CommittedText(0, pos, <<"a">>)
          /\ history = << <<>>, <<editingText>> >>
    /\ et = MeasureEffect(MountState(editingText))
    /\ prevSize = Size(et)

\* The text sub-machine on its own: every handler of an overlay, from its opening
\* to its removal
NextHook ==
    \/ WithinHistory /\ Overlay
    \/ WithinHistory /\ Pointer
    \/ WithinHistory /\ Keyboard

SpecHook == InitHook /\ [][NextHook]_vars

-----------------------------------------------------------------------------
(* The history engine *)

\* The calls of a handler run that are commits: every onAddObject, and every
\* onUpdateObject whose target id is in the snapshot at the cursor
IsCommit(call) == call.op = "addObject" \/ HasId(objects, call.obj.id)
Commits(calls) == {n \in 1..Len(calls) : IsCommit(calls[n])}

\* `new` is `old` with the mutation of `call` applied: the object appended last,
\* or put in place of the first object with its id
AppliedTo(old, new, call) ==
    IF call.op = "addObject"
    THEN /\ Len(new) = Len(old) + 1
         /\ new[Len(new)] = call.obj
         /\ \A i \in 1..Len(old) : new[i] = old[i]
    ELSE /\ Len(new) = Len(old)
         /\ \E j \in 1..Len(old) :
               /\ old[j].id = call.obj.id
               /\ \A i \in 1..(j - 1) : old[i].id # call.obj.id
               /\ new[j] = call.obj
               /\ \A i \in 1..Len(old) : i # j => new[i] = old[i]

\* C1: a commit made at cursor c (an addObject, or an updateObject whose target id
\* is in the snapshot at c) leaves snapshots 0..c as they were, makes the history
\* exactly c + 2 long, makes its last snapshot the snapshot at c with the mutation
\* applied, and moves the cursor to c + 1.
C1_CommitAppendsAtCursor ==
    [][\A n \in 1..Len(ev'.calls) : IsCommit(ev'.calls[n]) =>
          /\ Len(history') = currentStep + 2
          /\ \A i \in 1..(currentStep + 1) : history'[i] = history[i]
          /\ AppliedTo(objects, history'[currentStep + 2], ev'.calls[n])
          /\ currentStep' = currentStep + 1]_vars

\* an updateObject has just replaced the object of the second snapshot, making the third
C1_Witness ==
    /\ ev.calls # <<>>
    /\ ev.calls[1].op = "updateObject"
    /\ currentStep = 2
    /\ Len(objects) = 1
    /\ HasId(history[2], ev.calls[1].obj.id)
    /\ objects # history[2]

\* C2: after every commit canUndo is true and canRedo is false, and canRedo
\* becomes true only by an undo: it stays false through any sequence of commits.
C2_CommitEnablesUndoOnly ==
    [][/\ Commits(ev'.calls) # {} => (canUndo' /\ ~canRedo')
       /\ (~canRedo /\ canRedo') => ev'.op = "undo"]_vars

\* an addObject has just made the third snapshot
C2_Witness ==
    /\ ev.calls # <<>>
    /\ ev.calls[1].op = "addObject"
    /\ Len(history) = 3
    /\ canUndo /\ ~canRedo

\* the object set shown after the undo handler and then the redo handler have run
\* from the current state
AfterUndoRedo ==
    CurrentObjects(history, RedoCursor(history, UndoCursor(currentStep)))

\* C3, as stated: from every reachable history state, undo followed directly by
\* redo shows the object set that was shown before the undo.
C3_UndoRedoIdentityEverywhere == AfterUndoRedo = objects

\* C3, amended: from every reachable history state with canUndo (cursor > 0),
\* undo followed directly by redo shows the object set that was shown before the
\* undo; so does every press of the undo button followed directly by a press of
\* the redo button.
C3_UndoRedoIdentity ==
    /\ [](canUndo => AfterUndoRedo = objects)
    /\ [][(ev.op = "undo" /\ ev'.op = "redo") => objects' = ev.shown]_vars

\* a redo has just followed an undo and shows the objects shown before it
C3_Witness ==
    /\ ev.op = "redo"
    /\ ev.shown # NotShown
    /\ objects = ev.shown
    /\ objects # <<>>
    /\ canRedo

\* C4: undo and redo leave the snapshots alone and move the cursor by exactly one
\* step inside 0..last; at cursor 0 the undo handler, and at the last index the
\* redo handler, leave the cursor where it is; canUndo is false exactly at cursor
\* 0 and canRedo exactly at the last index.
C4_UndoRedoMoveCursorOnly ==
    /\ [](/\ canUndo <=> currentStep # 0
          /\ canRedo <=> currentStep # Len(history) - 1
          /\ ~canUndo => UndoCursor(currentStep) = currentStep
          /\ ~canRedo => RedoCursor(history, currentStep) = currentStep)
    /\ [][/\ ev'.op = "undo" =>
                /\ history' = history
                /\ currentStep' = currentStep - 1
                /\ currentStep' >= 0
          /\ ev'.op = "redo" =>
                /\ history' = history
                /\ currentStep' = currentStep + 1
                /\ currentStep' <= Len(history) - 1]_vars

\* an undo has just reached the first of three snapshots
C4_Witness ==
    /\ ev.op = "undo"
    /\ ~canUndo
    /\ Len(history) = 3

\* C5: clear leaves a history of exactly one empty snapshot with cursor 0: the
\* object set is empty, canUndo and canRedo are false, and no snapshot is left
\* that an undo or a redo could show.
C5_ClearForgetsEverything ==
    [][ev'.op = "clear" =>
          /\ Len(history') = 1
          /\ history'[1] = <<>>
          /\ currentStep' = 0
          /\ objects' = <<>>
          /\ ~canUndo' /\ ~canRedo'
          /\ UndoCursor(currentStep') = 0
          /\ RedoCursor(history', currentStep') = 0]_vars

\* a clear has just removed the selected object, with snapshots before and
\* after the cursor
C5_Witness ==
    /\ ev.op = "clear"
    /\ selectedObjectId # NoId
    /\ history = << <<>> >>

-----------------------------------------------------------------------------
(* Strokes *)

PenTool == activeTool \in {"pencil", "eraser"}

\* exactly one snapshot is appended at the cursor, and it is `new`
AppendsSnapshot(new) ==
    /\ Len(history') = currentStep + 2
    /\ \A i \in 1..(currentStep + 1) : history'[i] = history[i]
    /\ history'[currentStep + 2] = new
    /\ currentStep' = currentStep + 1

\* A pencil or eraser pointer-down at p0 starts a preview line whose points are
\* p0: whenever the tool is pencil or eraser (open = TRUE), or only while no
\* text-edit instance is open (open = FALSE)
StrokeStarts(open) ==
    \A pos \in Pos, empty \in BOOLEAN :
       (PenTool /\ (open \/ editingText = Null) /\ handleMouseDown(pos, empty)) =>
          /\ isDrawing'
          /\ previewLine' # Null
          /\ previewLine'.type = "line"
          /\ previewLine'.points = <<pos.x, pos.y>>

\* a pointer-move at p, while a preview line is active, appends p to its points
StrokeGrows ==
    \A point \in MovePos :
       (previewLine # Null /\ handleMouseMove(point)) =>
          /\ previewLine' # Null
          /\ previewLine'.id = previewLine.id
          /\ previewLine'.points = previewLine.points \o <<point.x, point.y>>

\* a pointer-up, while a preview line is active, appends one snapshot: the current
\* object set with the preview line, points as they are, appended last
StrokeEnds ==
    (previewLine # Null /\ handleMouseUp) =>
       AppendsSnapshot(Append(objects, previewLine))

DownLeavesSinglePoint(always) ==
    \A pos \in Pos \cup {Unresolved}, empty \in BOOLEAN :
       (/\ PenTool
        /\ always \/ (pos # Unresolved /\ editingText = Null)
        /\ handleMouseDown(pos, empty)) =>
          /\ isDrawing'
          /\ previewLine' # Null
          /\ Len(previewLine'.points) = 2

\* a pointer-up commits the pending preview line, if there is one, and nothing
\* otherwise; either way no preview line is left
UpCommitsPending ==
    handleMouseUp =>
       /\ previewLine' = Null
       /\ IF previewLine # Null
          THEN AppendsSnapshot(Append(objects, previewLine))
          ELSE UNCHANGED <<history, currentStep>>

\* pointer-downs and pointer-moves commit nothing
OnlyUpCommits ==
    /\ \A pos \in Pos \cup {Unresolved}, empty \in BOOLEAN :
          handleMouseDown(pos, empty) => UNCHANGED <<history, currentStep>>
    /\ \A point \in MovePos \cup {Unresolved} :
          handleMouseMove(point) => UNCHANGED <<history, currentStep>>

C8_MoveOnlyExtendsPreview ==
    [][\A point \in MovePos \cup {Unresolved} :
          (previewLine # Null /\ handleMouseMove(point)) =>
             /\ previewLine' =
                   IF point = Unresolved THEN previewLine
                   ELSE [previewLine EXCEPT !.points = @ \o <<point.x, point.y>>]
             /\ UNCHANGED <<history, currentStep, selectedObjectId, editingText>>
      ]_vars

\* a preview line has grown by a point while an object is selected and a
\* snapshot can be redone
C8_Witness ==
    /\ previewLine # Null
    /\ Len(previewLine.points) = 2 * (MaxMoves + 1)
    /\ selectedObjectId # NoId
    /\ canRedo

-----------------------------------------------------------------------------
(* The end of a text edit *)

Blank(text) == \A i \in 1..Len(text) : text[i] \in Whitespace

\* `new` is `old` with a Text of this id and text appended last
TextAdded(old, new, id, text) ==
    /\ Len(new) = Len(old) + 1
    /\ \A i \in 1..Len(old) : new[i] = old[i]
    /\ new[Len(new)].type = "text"
    /\ new[Len(new)].id = id
    /\ new[Len(new)].text = text

\* `new` is `old` with a Text of this id and text in place of the first object
\* with this id
TextReplaced(old, new, id, text) ==
    /\ Len(new) = Len(old)
    /\ \E j \in 1..Len(old) :
          /\ old[j].id = id
          /\ \A i \in 1..(j - 1) : old[i].id # id
          /\ new[j].type = "text"
          /\ new[j].id = id
          /\ new[j].text = text
          /\ \A i \in 1..Len(old) : i # j => new[i] = old[i]

\* the step ends the edit (blur or Escape) of an instance made by placement
PlacedEditEnds ==
    /\ origin = "placement"
    /\ \E n \in 1..Len(ev'.notes) : ev'.notes[n] = "onDone"

\* C9, as stated: when the edit of a Text instance made by text-tool placement
\* ends with a non-empty text t, exactly one snapshot is appended and it adds
\* exactly one Text object with text t; when it ends with the empty text,
\* history and cursor are unchanged.
C9_PlacedTextCommittedIffNonEmpty ==
    [][PlacedEditEnds =>
          IF et.text # <<>>
          THEN /\ Len(history') = currentStep + 2
               /\ \A i \in 1..(currentStep + 1) : history'[i] = history[i]
               /\ currentStep' = currentStep + 1
               /\ TextAdded(objects, history'[currentStep + 2],
                            editingText.id, et.text)
          ELSE UNCHANGED <<history, currentStep>>]_vars

\* C9, amended: when the edit of a Text instance made by text-tool placement ends
\* with text t, then: if no object of the current snapshot has the instance's id,
\* a t with a character that is not whitespace appends exactly one snapshot, which
\* adds exactly one Text object with text t, appended last, and a t that is empty
\* or all whitespace leaves history and cursor unchanged; if an object of the
\* current snapshot has the instance's id (ids are clock readings, which can
\* repeat), exactly one snapshot is appended, in which a Text with text t takes
\* the place of the first such object, whatever t is.
C9_PlacedTextCommittedIffNonBlank ==
    [][PlacedEditEnds =>
          IF HasId(objects, editingText.id)
          THEN /\ Len(history') = currentStep + 2
               /\ \A i \in 1..(currentStep + 1) : history'[i] = history[i]
               /\ currentStep' = currentStep + 1
               /\ TextReplaced(objects, history'[currentStep + 2],
                               editingText.id, et.text)
          ELSE IF ~Blank(et.text)
          THEN /\ Len(history') = currentStep + 2
               /\ \A i \in 1..(currentStep + 1) : history'[i] = history[i]
               /\ currentStep' = currentStep + 1
               /\ TextAdded(objects, history'[currentStep + 2],
                            editingText.id, et.text)
          ELSE UNCHANGED <<history, currentStep>>]_vars

\* the edit of a placed instance has just ended by adding its Text, with a
\* text that is not blank, after another object
C9_Witness ==
    /\ ev.op = "placement"
    /\ ev.notes = <<"onUpdate", "onDone">>
    /\ Len(ev.calls) = 2
    /\ ev.calls[2].op = "addObject"
    /\ ~Blank(ev.calls[2].obj.text)
    /\ Len(objects) = 2
    /\ objects[2] = ev.calls[2].obj
    /\ editingText = Null

NoEmptyText(h) ==
    \A i \in 1..Len(h) : \A j \in 1..Len(h[i]) :
       h[i][j].type = "text" => h[i][j].text # <<>>

\* the step ends the edit (blur or Escape) of an instance opened by double-click
ReopenedEditEnds ==
    /\ origin = "dblClick"
    /\ \E n \in 1..Len(ev'.notes) : ev'.notes[n] = "onDone"

\* C10, as stated, for the case it names: no snapshot of the history ever holds
\* a Text object whose text is empty, also after double-clicking a committed Text,
\* clearing its text and blurring: the end of an edit opened by double-click puts
\* no Text with empty text into a history that held none.
C10_NoEmptyTextAfterReedit ==
    [][(ReopenedEditEnds /\ NoEmptyText(history)) => NoEmptyText(history')]_vars

-----------------------------------------------------------------------------
(* Selection and editing *)

\* C11, as stated: a selected object and an editing text never exist at the same
\* time: selectedObjectId is non-null only when editingText is null.
C11_SelectionExcludesEditing == selectedObjectId # NoId => editingText = Null

\* an object is selected
Selected == selectedObjectId # NoId

\* with the select tool and an object selected, a pointer-down on the empty
\* stage clears the selection: always, or only while no text-edit instance is open
DownOnEmptyDeselects(always) ==
    \A pos \in Pos \cup {Unresolved} :
       (/\ activeTool = "cursor" /\ Selected
        /\ always \/ editingText = Null
        /\ handleMouseDown(pos, TRUE)) =>
          selectedObjectId' = NoId

\* with an object selected, a text-tool pointer-down clears the selection and
\* makes a new, empty text at the pointer position the editing instance: always,
\* or only for a resolvable position while no text-edit instance is open
TextDownOpensEdit(always) ==
    \A pos \in Pos \cup {Unresolved}, empty \in BOOLEAN :
       (/\ activeTool = "text" /\ Selected
        /\ always \/ (editingText = Null /\ Resolved(pos))
        /\ handleMouseDown(pos, empty)) =>
          /\ selectedObjectId' = NoId
          /\ editingText' # Null
          /\ editingText'.type = "text"
          /\ editingText'.text = <<>>
          /\ editingText'.x = pos.x /\ editingText'.y = pos.y
          /\ et' # Null

\* with the select tool and an object selected, a double-click on a Text object
\* clears the selection and makes that Text the editing instance
DblClickOpensEdit ==
    \A i \in 1..Len(objects) :
       (/\ activeTool = "cursor" /\ Selected
        /\ objects[i].type = "text"
        /\ handleObjectDblClick(objects[i].id)) =>
          /\ selectedObjectId' = NoId
          /\ editingText' = objects[i]
          /\ et' # Null

\* with the select tool and an object selected, a click on an object makes that
\* object the selection
ClickSelects ==
    \A i \in 1..Len(objects) :
       (/\ activeTool = "cursor" /\ Selected
        /\ handleObjectClick(objects[i].id)) =>
          selectedObjectId' = objects[i].id

-----------------------------------------------------------------------------
(* Identity of objects *)

\* no two places of one object set hold the same id
UniqueIds(objs) ==
    \A i, j \in 1..Len(objs) : objs[i].id = objs[j].id => i = j

\* C16: object ids are unique: in every reachable state no snapshot of the
\* history holds two objects with the same id, whatever the clock readings at
\* which their creation gestures started.
C16_UniqueIds == \A n \in 1..Len(history) : UniqueIds(history[n])

-----------------------------------------------------------------------------
(* Unresolved pointer positions *)

\* what an ignored pointer event must leave alone
Untouched == UNCHANGED <<previewLine, editingText, selectedObjectId, history,
                         currentStep>>

\* a pointer-down of a drawing or text tool without a position
UnresolvedDownIgnored ==
    (/\ activeTool \in {"pencil", "eraser", "text"}
     /\ \E empty \in BOOLEAN : handleMouseDown(Unresolved, empty))
       => Untouched

\* a pointer-move without a position
UnresolvedMoveIgnored == handleMouseMove(Unresolved) => Untouched

\* a pointer-up with no line pending commits nothing
UpWithoutLineCommitsNothing ==
    (previewLine = Null /\ handleMouseUp) => UNCHANGED <<history, currentStep>>

\* C20: a pointer-down (pencil, eraser or text tool) or a pointer-move whose
\* position cannot be resolved changes neither the preview line, the editing
\* text, the selection nor the history; the pointer-up that follows commits the
\* line that was pending before the ignored event, and nothing when none was.
C20_UnresolvedIgnored ==
    [][/\ UnresolvedDownIgnored
       /\ UnresolvedMoveIgnored
       /\ UpWithoutLineCommitsNothing
       /\ UpCommitsPending]_vars

\* a drawing tool is down with no line begun: the state an ignored pointer-down
\* leaves, from which the moves and the pointer-up follow
C20_Witness ==
    /\ PenTool
    /\ isDrawing
    /\ previewLine = Null
    /\ editingText = Null
    /\ ENABLED handleMouseUp
    /\ ENABLED handleMouseMove(Unresolved)

-----------------------------------------------------------------------------
(* Resizing the text overlay *)

Resizing == et # Null /\ et.interactionMode = "RESIZING"

Clamp(v, lo, hi) == IF v < lo THEN lo ELSE IF v > hi THEN hi ELSE v

\* the extension the pointer's deltas stand for at each handle
Extension(direction, dx, dy) ==
    CASE direction = "top-left"     -> 0 - dx - dy
      [] direction = "top-right"    -> dx - dy
      [] direction = "bottom-left"  -> dy - dx
      [] direction = "bottom-right" -> dx + dy

\* The press on a handle records the pointer position and the font size
PressRecordsStart ==
    \A client \in PressPoints, direction \in Directions :
       etHandleMouseDown(client, "RESIZING", direction) =>
          /\ interaction'.startX = client.x
          /\ interaction'.startY = client.y
          /\ interaction'.startFontSize = et.fontSize
          /\ interaction'.direction = direction

\* A move sets the font size out of the recorded start, in FontUnit-ths of a
\* pixel: FontUnit * size = clamp(FontUnit * start + ext), and keeps the record
MoveSetsFontSize ==
    \A client \in ResizePoints :
       (Resizing /\ windowMouseMove(client)) =>
          LET dx == client.x - interaction.startX
              dy == client.y - interaction.startY
          IN /\ FontUnit * et'.fontSize =
                   Clamp(FontUnit * interaction.startFontSize
                            + Extension(interaction.direction, dx, dy),
                         FontUnit * MIN_FONT_SIZE, FontUnit * MAX_FONT_SIZE)
             /\ interaction' = interaction
             /\ (interaction.direction = "bottom-right" /\ dx >= 0 /\ dy >= 0)
                   => et'.fontSize >= interaction.startFontSize

\* C15: on each pointer-move while RESIZING the new font size is
\* clamp(startFontSize + 0.2 * ext, 8, 150), ext being -dx-dy for top-left,
\* dx-dy for top-right, -dx+dy for bottom-left and dx+dy for bottom-right, with
\* dx, dy measured from the pointer position recorded at the press; positive
\* dx, dy at the bottom-right handle never take the font below its starting size.
C15_ResizeFontSize == [][PressRecordsStart /\ MoveSetsFontSize]_vars

\* a pull at the bottom-right handle has taken the font size to its upper limit
C15_Witness ==
    /\ Resizing
    /\ interaction.direction = "bottom-right"
    /\ interaction.startFontSize < MAX_FONT_SIZE
    /\ et.fontSize = MAX_FONT_SIZE

\* the corner or edge a handle keeps in place, as it was at the press: a left
\* handle keeps the right edge, a right handle the left edge, a top handle the
\* bottom edge and a bottom handle the top edge
AnchorKept(state, inter, startSize) ==
    /\ IF IsLeft(inter.direction)
       THEN state.x + state.width = inter.startBoxX + startSize.width
       ELSE state.x = inter.startBoxX
    /\ IF IsTop(inter.direction)
       THEN state.y + state.height = inter.startBoxY + startSize.height
       ELSE state.y = inter.startBoxY

\* C14: during a RESIZING interaction, once the size and anchor effects have
\* settled after a pointer-move, a left handle has kept x + width at its value
\* at the press, a top handle y + height, a right handle x and a bottom handle y.
C14_AnchorKept ==
    [][\A client \in ResizePoints :
          (Resizing /\ windowMouseMove(client)) =>
             AnchorKept(et', interaction,
                        Measure(et.text, interaction.startFontSize))]_vars

-----------------------------------------------------------------------------
(* Notifications of the text sub-machine *)

\* The hook's state after a step.  onDone removes the overlay within the step:
\* the state it was called with is the one END_EDIT left, the state before with
\* the mode set to IDLE
StateAfter ==
    IF et' = Null THEN [et EXCEPT !.interactionMode = "IDLE"] ELSE et'

\* the notifications a step from mode `before` to mode `after` must send
Expected(before, after) ==
    IF before = "IDLE" \/ after # "IDLE" THEN <<>>
    ELSE IF before = "EDITING" THEN <<"onUpdate", "onDone">>
    ELSE <<"onUpdate">>

\* C17: in the text sub-machine every transition from a non-IDLE mode to IDLE
\* calls onUpdate exactly once with the state at that transition, and onDone
\* after it exactly when the mode left was EDITING; no other transition sends a
\* notification.  onUpdate reaches the host as handleTextUpdate's request to
\* update the object {...editingText, ...state}.
C17_Notifications ==
    [][et # Null =>
          /\ ev'.notes = Expected(et.interactionMode, StateAfter.interactionMode)
          /\ IF ev'.notes = <<>> THEN ev'.calls = <<>>
             ELSE /\ ev'.calls # <<>>
                  /\ ev'.calls[1] =
                        Call("updateObject", MergeState(editingText, StateAfter))]_vars

\* an edit has just been ended: onUpdate and onDone were sent, each with a
\* request to the host, and the overlay is gone
C17_Witness ==
    /\ ev.notes = <<"onUpdate", "onDone">>
    /\ Len(ev.calls) = 2
    /\ et = Null

-----------------------------------------------------------------------------
(* Transforms *)

\* `size` is max(MinSize, dimension * scale), the scale being in ScaleUnit-ths
ClampedProduct(size, dimension, scale) ==
    /\ size >= MinSize
    /\ IF dimension * scale < MinSize * ScaleUnit
       THEN size = MinSize
       ELSE ScaleUnit * size = dimension * scale

\* the selected object is in the current set and has a width and a height
SizedSelection ==
    /\ HasId(objects, selectedObjectId)
    /\ HasSize(objects[FindIndex(objects, selectedObjectId)])

\* C13: for every transform-end on an object that has width and height, and for
\* every scale the node reports (zero and negative ones too), the committed
\* width and height are max(5, old dimension * scale): a result below 5 becomes
\* exactly 5, and no committed width or height is below 5.
C13_TransformClamp ==
    [][\A node \in Transforms :
          (SizedSelection /\ handleTransformEnd(node)) =>
             LET n   == FindIndex(objects, selectedObjectId)
                 old == objects[n]
                 new == objects'[n]
             IN /\ currentStep' = currentStep + 1
                /\ new.id = old.id
                /\ ClampedProduct(new.width, old.width, node.scaleX)
                /\ ClampedProduct(new.height, old.height, node.scaleY)]_vars

\* a transform-end has just committed an object whose width (from a negative
\* scale) and height (from a scale of 0.25) were both raised to the minimum
C13_Witness ==
    /\ Len(ev.calls) = 1
    /\ ev.calls[1].op = "updateObject"
    /\ ev.notes = <<>>
    /\ HasId(objects, ev.calls[1].obj.id)
    /\ HasSize(ev.calls[1].obj)
    /\ ev.calls[1].obj.width = MinSize
    /\ ev.calls[1].obj.height = MinSize

-----------------------------------------------------------------------------
(* Updates of objects that are not in the current set *)

\* every host call of the step is an update of an object absent from the
\* current set
OnlyAbsentUpdates(calls) ==
    /\ calls # <<>>
    /\ \A n \in 1..Len(calls) :
          calls[n].op = "updateObject" /\ ~HasId(objects, calls[n].obj.id)

\* a transform-end of a node whose object has left the current set
AbsentTransformIgnored ==
    \A node \in Transforms :
       (/\ selectedObjectId # NoId
        /\ ~HasId(objects, selectedObjectId)
        /\ handleTransformEnd(node)) => UNCHANGED <<history, currentStep>>

\* C19: an update whose target id is not in the current snapshot, from a
\* transform-end or from the text overlay, is ignored: the history and the
\* cursor, and with them canUndo, canRedo and the redo branch, are unchanged.
C19_AbsentUpdateIgnored ==
    [][/\ OnlyAbsentUpdates(ev'.calls) => UNCHANGED <<history, currentStep>>
       /\ AbsentTransformIgnored]_vars

\* the overlay has just asked for an update of a Text that an undo took out of
\* the current set, and the redo branch is still there
C19_Witness ==
    /\ ev.notes = <<"onUpdate">>
    /\ OnlyAbsentUpdates(ev.calls)
    /\ canRedo

-----------------------------------------------------------------------------
(* One snapshot for each completed gesture *)

\* exactly one snapshot is appended at the cursor, which advances by one
OneSnapshot ==
    /\ Len(history') = currentStep + 2
    /\ \A i \in 1..(currentStep + 1) : history'[i] = history[i]
    /\ currentStep' = currentStep + 1

\* the overlay is the one of an already committed Text: it was opened by a
\* double-click; `always` leaves out that the Text is still in the current set
CommittedOverlay(always) ==
    /\ et # Null
    /\ origin = "dblClick"
    /\ always \/ HasId(objects, editingText.id)

\* a stroke ended by pointer-up
StrokeCommitsOnce == (previewLine # Null /\ handleMouseUp) => OneSnapshot

\* a transform-end on an object of the current set
TransformCommitsOnce ==
    \A node \in Transforms :
       (HasId(objects, selectedObjectId) /\ handleTransformEnd(node)) => OneSnapshot

\* a drag or a resize of the overlay ended by mouse-up
ReleaseCommitsOnce(always) ==
    (CommittedOverlay(always) /\ windowMouseUp) => OneSnapshot

\* an edit ended by blur or Escape with a non-empty text
EditCommitsOnce(always) ==
    (CommittedOverlay(always) /\ et.text # <<>> /\ endEdit) => OneSnapshot

\* C18, as stated: each completed gesture appends exactly one snapshot and
\* advances the cursor by one: a stroke ended by pointer-up, a transform-end on
\* an object of the current set, a drag or resize of the overlay of an already
\* committed Text ended by mouse-up, an edit of an already committed Text ended
\* by blur or Escape with non-empty text.
C18_EveryGestureCommitsOnce ==
    [][/\ StrokeCommitsOnce
       /\ TransformCommitsOnce
       /\ ReleaseCommitsOnce(TRUE)
       /\ EditCommitsOnce(TRUE)]_vars

\* C18, amended: the same, for the overlay of a Text that is in the current
\* snapshot when the gesture ends.
C18_GestureCommitsOnce ==
    [][/\ StrokeCommitsOnce
       /\ TransformCommitsOnce
       /\ ReleaseCommitsOnce(FALSE)
       /\ EditCommitsOnce(FALSE)]_vars

\* the edit of a committed Text has just ended: onUpdate and onDone each asked
\* for an update of the Text, and the history holds one snapshot more
C18_Witness ==
    /\ ev.op = "dblClick"
    /\ ev.notes = <<"onUpdate", "onDone">>
    /\ Len(ev.calls) = 2
    /\ ev.calls[1].op = "updateObject"
    /\ ev.calls[2].op = "updateObject"
    /\ HasId(objects, ev.calls[2].obj.id)
    /\ currentStep = Len(history) - 1
    /\ currentStep = MaxHistory - 1

-----------------------------------------------------------------------------
(* The style of a line *)

Style(line) ==
    [color |-> line.color, strokeWidth |-> line.strokeWidth,
     opacity |-> line.opacity,
     globalCompositeOperation |-> line.globalCompositeOperation]

\* the style the options and the tool stand for
StyleOf(options, tool) ==
    [color |-> options.pencil.color,
     strokeWidth |-> IF tool = "eraser" THEN options.eraser.size
                     ELSE options.pencil.strokeWidth,
     opacity |-> options.pencil.opacity,
     globalCompositeOperation |-> IF tool = "eraser" THEN "destination-out"
                                  ELSE "source-over"]

\* a pointer-down gives the new preview line the style of that instant
DownTakesStyle ==
    \A pos \in Pos :
       (PenTool /\ editingText = Null /\ handleMouseDown(pos, TRUE)) =>
          /\ previewLine' # Null
          /\ Style(previewLine') = StyleOf(toolOptions, activeTool)

\* a change of the options or of the tool touches no line
ChangeKeepsLines ==
    (toolOptions' # toolOptions \/ activeTool' # activeTool) =>
       UNCHANGED <<previewLine, history, currentStep>>

\* a pointer-move keeps the style of the preview line
MoveKeepsStyle ==
    \A point \in MovePos :
       (previewLine # Null /\ handleMouseMove(point)) =>
          /\ previewLine' # Null
          /\ Style(previewLine') = Style(previewLine)

\* C21: the colour, stroke width, opacity and composite mode of a committed Line
\* are those derived from ToolOptions and the active tool at its pointer-down
\* (erase iff the tool was the eraser); a change of ToolOptions or of the active
\* tool during the stroke or after the commit changes neither the preview line
\* nor any committed line, and the pointer-up commits the preview line as it is.
C21_StyleAtPointerDown ==
    [][DownTakesStyle /\ ChangeKeepsLines /\ MoveKeepsStyle /\ StrokeEnds]_vars

\* an eraser stroke is under way and a line is committed, and neither has the
\* style the options and the tool now stand for
C21_Witness ==
    /\ previewLine # Null
    /\ previewLine.globalCompositeOperation = "destination-out"
    /\ activeTool = "pencil"
    /\ previewLine.strokeWidth # toolOptions.eraser.size
    /\ Len(previewLine.points) > 2
    /\ objects # <<>>
    /\ objects[1].color # toolOptions.pencil.color
    /\ objects[1].opacity # toolOptions.pencil.opacity

-----------------------------------------------------------------------------
(* Keys of the text sub-machine *)

\* the translation an arrow key stands for, and the change of font size of
\* Ctrl+ArrowUp / Ctrl+ArrowDown
Nudge(key, shiftKey, ctrlKey) ==
    LET step == IF shiftKey THEN 10 ELSE 1
    IN CASE key = "ArrowLeft"               -> [dx |-> 0 - step, dy |-> 0]
         [] key = "ArrowRight"              -> [dx |-> step, dy |-> 0]
         [] key = "ArrowUp" /\ ~ctrlKey     -> [dx |-> 0, dy |-> 0 - step]
         [] key = "ArrowDown" /\ ~ctrlKey   -> [dx |-> 0, dy |-> step]
         [] OTHER                           -> [dx |-> 0, dy |-> 0]

FontChange(key, shiftKey, ctrlKey) ==
    LET fontStep == IF shiftKey THEN 2 ELSE 1
    IN CASE key = "ArrowUp" /\ ctrlKey   -> fontStep
         [] key = "ArrowDown" /\ ctrlKey -> 0 - fontStep
         [] OTHER                        -> 0

\* what a key does in IDLE mode
KeyActsWhenIdle ==
    \A key \in Keys, shiftKey \in BOOLEAN, ctrlKey \in BOOLEAN :
       (/\ et # Null
        /\ et.interactionMode = "IDLE"
        /\ handleKeyDown(key, shiftKey, ctrlKey)) =>
          /\ et'.x = et.x + Nudge(key, shiftKey, ctrlKey).dx
          /\ et'.y = et.y + Nudge(key, shiftKey, ctrlKey).dy
          /\ et'.fontSize =
                Clamp(et.fontSize + FontChange(key, shiftKey, ctrlKey),
                      MIN_FONT_SIZE, MAX_FONT_SIZE)

\* what a key does in the modes `modes`: nothing to position and font size
KeyIgnoredIn(modes) ==
    \A key \in Keys, shiftKey \in BOOLEAN, ctrlKey \in BOOLEAN :
       (/\ et # Null
        /\ et.interactionMode \in modes
        /\ handleKeyDown(key, shiftKey, ctrlKey)) =>
          /\ et'.x = et.x
          /\ et'.y = et.y
          /\ et'.fontSize = et.fontSize

\* C22: in the text sub-machine keyboard input acts only while the mode is IDLE:
\* an arrow key moves the box by 1 (10 with Shift) along its axis and keeps the
\* font size, Ctrl+ArrowUp / Ctrl+ArrowDown changes the font size by 1 (2 with
\* Shift), clamped to [8, 150], and keeps x and y; in DRAGGING, RESIZING and
\* EDITING mode keys change neither position nor font size.
C22_KeysOnlyWhenIdle ==
    [][/\ KeyActsWhenIdle
       /\ KeyIgnoredIn({"DRAGGING", "RESIZING", "EDITING"})]_vars

(* Dragging the overlay *)

\* a pointer move while the overlay is dragged puts the box where it was at
\* the press, moved by the pointer's displacement since the press, and leaves the
\* text and its extents alone
DragFollowsPointer ==
    \A client \in DragPoints :
        (/\ et # Null
         /\ et.interactionMode = "DRAGGING"
         /\ windowMouseMove(client))
        => /\ et' # Null
           /\ et'.x = interaction.startBoxX + (client.x - interaction.startX)
           /\ et'.y = interaction.startBoxY + (client.y - interaction.startY)
           /\ et'.text = et.text
           /\ et'.fontSize = et.fontSize
           /\ et'.width = et.width
           /\ et'.height = et.height

\* C23: on every pointer move of a drag the box is at its position of the press
\* plus the pointer's displacement since the press, without clamping, and the
\* text, the font size, the width and the height are those before the move
C23_DragFollowsPointer == [][DragFollowsPointer]_vars

\* a drag has taken the box above the top edge of the canvas
C23_Witness ==
    /\ et # Null
    /\ et.interactionMode = "DRAGGING"
    /\ interaction.startBoxY = 0
    /\ et.y < 0

(* Entering and leaving a gesture of the overlay *)

\* a step takes the overlay into DRAGGING or RESIZING out of another mode
GestureEntered ==
    /\ et # Null
    /\ et' # Null
    /\ et'.interactionMode \in {"DRAGGING", "RESIZING"}
    /\ et'.interactionMode # et.interactionMode

\* the window mouseup of a gesture leaves the overlay mounted and IDLE
MouseUpEndsGesture ==
    (/\ et # Null
     /\ et.interactionMode \in {"DRAGGING", "RESIZING"}
     /\ windowMouseUp)
    => /\ et' # Null
       /\ et'.interactionMode = "IDLE"

\* DRAGGING or RESIZING is entered out of IDLE or out of a mode of `from`
GestureEnteredFrom(from) ==
    GestureEntered => et.interactionMode \in {"IDLE"} \cup from

\* C24: the text sub-machine enters DRAGGING or RESIZING only from IDLE, never
\* from EDITING nor from the other gesture, and a mouse-up in DRAGGING or
\* RESIZING always leads to IDLE
C24_GestureOnlyFromIdle == [][GestureEnteredFrom({}) /\ MouseUpEndsGesture]_vars

\* what the code does keep: a gesture is entered from IDLE or EDITING, and the
\* mouse-up ends it in IDLE
GestureFromIdleOrEditing ==
    [][GestureEnteredFrom({"EDITING"}) /\ MouseUpEndsGesture]_vars

(* The end of an edit *)

\* a step takes the overlay out of EDITING, to IDLE or off the screen
EditingLeft ==
    /\ et # Null
    /\ et.interactionMode = "EDITING"
    /\ \/ et' = Null
       \/ et'.interactionMode = "IDLE"

\* the end of an edit notifies onUpdate, then onDone, and leaves no editingText
\* and no overlay
EditEndClears ==
    EditingLeft => /\ ev'.notes = <<"onUpdate", "onDone">>
                   /\ editingText' = Null
                   /\ et' = Null

\* blur and Escape end every edit
EndEditLeaves == (et # Null /\ endEdit) => EditingLeft

\* C25: when the text sub-machine goes from EDITING back to IDLE, editingText
\* is null once the handlers have run, whether the text was committed or
\* discarded, although onUpdate sets editingText just before onDone clears it
C25_EditingTextCleared == [][EditEndClears /\ EndEditLeaves]_vars

\* a whitespace-only new text has just been discarded at the end of its edit,
\* after an earlier text had been committed at the end of its own
C25_Witness ==
    /\ ev.notes = <<"onUpdate", "onDone">>
    /\ ev.op = "placement"
    /\ Len(ev.calls) = 1
    /\ Trim(ev.calls[1].obj.text) = <<>>
    /\ ~HasId(objects, ev.calls[1].obj.id)
    /\ objects # <<>>
    /\ objects[1].type = "text"
    /\ editingText = Null
    /\ et = Null

(* What a commit adds *)

\* a handler run has appended a snapshot to the history
SnapshotAppended ==
    /\ ev'.calls # <<>>
    /\ currentStep' = currentStep + 1
    /\ Len(history') = currentStep' + 1
    /\ SubSeq(history', 1, currentStep + 1) = SubSeq(history, 1, currentStep + 1)

\* the snapshot appended is not the one it was built from
SnapshotDiffers == SnapshotAppended => history'[currentStep' + 1] # objects

\* C26: every snapshot appended to the history differs from the snapshot it was
\* built from: no gesture, not even a click without a move on the overlay,
\* appends a snapshot equal to its predecessor
C26_AppendedSnapshotDiffers == [][SnapshotDiffers]_vars

(* Where a line sits *)

\* every Line of the objects sits at the origin
LinesAtOrigin(objs) ==
    \A i \in 1..Len(objs) :
        objs[i].type = "line" => objs[i].x = 0 /\ objs[i].y = 0

\* C27: every Line in every snapshot has x = 0 and y = 0, also after the line
\* was selected and a transform ended on it
C27_LinesAtOrigin == \A i \in 1..Len(history) : LinesAtOrigin(history[i])

(* The points of a line *)

IsPrefix(s, t) == Len(s) <= Len(t) /\ SubSeq(t, 1, Len(s)) = s

\* while a line is the preview, its points are only appended to
PreviewAppendOnly ==
    \A point \in MovePos :
        (previewLine # Null /\ handleMouseMove(point))
        => /\ previewLine' # Null
           /\ IsPrefix(previewLine.points, previewLine'.points)

\* the Lines with one id have the same points, in all snapshots of the history
CommittedPointsKept ==
    \A i, j \in 1..Len(history) :
        \A k \in 1..Len(history[i]), l \in 1..Len(history[j]) :
            (/\ history[i][k].type = "line"
             /\ history[j][l].type = "line"
             /\ history[i][k].id = history[j][l].id)
            => history[i][k].points = history[j][l].points

\* C28: the points of a Line are append-only while it is the preview and
\* immutable once it is committed: for every Line id the points are the same in
\* every snapshot that holds it, whatever transforms, undos and redos follow
C28_PointsImmutable == [][PreviewAppendOnly /\ CommittedPointsKept']_vars

\* a Line of a snapshot is, in the next snapshot, a Line at the same place with
\* the same points
PointsKeptInPlace ==
    \A n \in 1..(Len(history) - 1) :
        \A k \in 1..Len(history[n]) :
            history[n][k].type = "line"
            => /\ k <= Len(history[n + 1])
               /\ history[n + 1][k].type = "line"
               /\ history[n + 1][k].points = history[n][k].points

\* what the code does keep, with a Line identified by its place in the object
\* set: the points of the preview are only appended to, and a committed Line has
\* the same points in every later snapshot, whatever transforms, undos and redos
\* follow
PointsKeptWherePlaced == [][PreviewAppendOnly /\ PointsKeptInPlace']_vars

\* a stroke with a move was committed and then transformed: the Line has left
\* the origin and has the points it was committed with
StrokeTransformed ==
    /\ Len(history) = 3
    /\ Len(history[2]) = 1
    /\ history[2][1].type = "line"
    /\ Len(history[2][1].points) = 4
    /\ history[3][1].x # history[2][1].x
    /\ history[3][1].points = history[2][1].points

(* The size of the overlay *)

\* the overlay's box has the measured extents of its text at its font size
Measured(state) == Size(state) = Measure(state.text, state.fontSize)

\* C29: whenever the text sub-machine is quiescent, all effects of the last
\* event having run, its width and height are the measured extents of the
\* current text at the current font size, so that every change of the text or of
\* the font size is followed by the new measured extents
C29_SizeIsMeasured == et # Null => Measured(et)

\* the text has been emptied and the font size changed since the overlay was
\* opened, and the box has the extents of the placeholder at the new font size
C29_Witness ==
    /\ et # Null
    /\ et.text = <<>>
    /\ et.fontSize = DEFAULT_TOOL_OPTIONS.text.fontSize + 1
    /\ et.width = PlaceholderLen * et.fontSize
    /\ et.height = et.fontSize

(* What a committed Text carries *)

\* no Text of the objects has an interactionMode field
NoInteractionMode(objs) ==
    \A i \in 1..Len(objs) :
        objs[i].type = "text" => "interactionMode" \notin DOMAIN objs[i]

\* C30: the transient interactionMode tag is never part of the committed history
\* state: no Text object of any snapshot carries an interactionMode field
C30_NoInteractionModeInHistory ==
    \A n \in 1..Len(history) : NoInteractionMode(history[n])

(* What a transform-end changes *)

\* the fields a transform-end may write
TransformFields == {"x", "y", "rotation", "width", "height"}

\* the snapshot committed by a transform-end of `node` on the object at place n:
\* as long as the one before, the same everywhere else, and at n the same object
\* at the node's position and rotation
TransformFrame(node, n) ==
    LET old == objects[n]
        new == objects'[n]
    IN /\ OneSnapshot
       /\ Len(objects') = Len(objects)
       /\ \A k \in 1..Len(objects) : k # n => objects'[k] = objects[k]
       /\ new.id = old.id
       /\ new.type = old.type
       /\ new.x = node.x
       /\ new.y = node.y
       /\ new.rotation = node.rotation
       /\ \A f \in DOMAIN old \ TransformFields : new[f] = old[f]
       /\ DOMAIN old \subseteq DOMAIN new

\* the fields the transformed object has gained: none but those in `gained`, and
\* none at all if it has a width and a height
GainsOnly(gained, n) ==
    DOMAIN objects'[n] \ DOMAIN objects[n]
        \subseteq (IF HasSize(objects[n]) THEN {} ELSE gained)

TransformEndFrame(gained) ==
    \A node \in Transforms :
        (/\ HasId(objects, selectedObjectId)
         /\ handleTransformEnd(node))
        => /\ TransformFrame(node, FindIndex(objects, selectedObjectId))
           /\ GainsOnly(gained, FindIndex(objects, selectedObjectId))

\* C31: a transform-end on an object of the current snapshot commits a snapshot
\* of the same length in which the object keeps its id, its type and its place
\* and has the reported x, y and rotation, every other object and every other
\* field being unchanged; and an object without width and height, a Line, gains
\* no rotation, width or height by it
C31_TransformEndFrame == [][TransformEndFrame({})]_vars

\* what the code does keep: the same, but a Line gains a rotation field
TransformEndFrameWithRotation == [][TransformEndFrame({"rotation"})]_vars

(* The limits of the font size *)

FontSizes == MIN_FONT_SIZE..MAX_FONT_SIZE

\* the font size every key press would ask for in this state is within the limits
KeysKeepFontSize ==
    \A key \in Keys, shiftKey \in BOOLEAN, ctrlKey \in BOOLEAN :
        KeyAction(key, shiftKey, ctrlKey).type = "UPDATE_FONT_SIZE"
        => reducer(et, KeyAction(key, shiftKey, ctrlKey)).fontSize \in FontSizes

\* the font size every pointer move of the resize under way would ask for is
\* within the limits
MovesKeepFontSize ==
    et.interactionMode = "RESIZING" =>
        \A client \in ResizePoints :
            ResizedFontSize(interaction.startFontSize,
                            ResizeExtension(interaction.direction,
                                            client.x - interaction.startX,
                                            client.y - interaction.startY))
                \in FontSizes

\* C32: the overlay's font size starts within [8, 150], and it is within
\* [8, 150] in every reachable state, as is the font size that any Ctrl+ArrowUp
\* or Ctrl+ArrowDown press, with or without Shift, and any move of a resize
\* would set next
C32_FontSizeWithinLimits ==
    et # Null => /\ et.fontSize \in FontSizes
                 /\ KeysKeepFontSize
                 /\ MovesKeepFontSize

\* a resize has taken the font size to its upper limit and has ended, and a
\* resize from there has taken it to the lower limit: the keys and the moves
\* that would leave the limits are at hand
C32_Witness ==
    /\ et # Null
    /\ et.interactionMode = "RESIZING"
    /\ interaction.startFontSize = MAX_FONT_SIZE
    /\ et.fontSize = MIN_FONT_SIZE

(* The shape of the history *)

\* C33: in every reachable state the history is not empty, the cursor is within
\* it, and its first snapshot is the empty object set: the current object set is
\* always one of the snapshots, and it is empty when nothing is left to undo
C33_HistoryShape ==
    /\ Len(history) >= 1
    /\ currentStep \in 0..(Len(history) - 1)
    /\ history[1] = <<>>
    /\ objects = history[currentStep + 1]
    /\ ~canUndo => objects = <<>>

\* everything has just been undone in a history that is as long as it gets
C33_Witness ==
    /\ ev.op = "undo"
    /\ ~canUndo
    /\ Len(history) = MaxHistory
    /\ history[MaxHistory] # <<>>

(* From one snapshot to the next *)

\* `later` is `earlier` with one object appended at the end
OneAppended(earlier, later) ==
    /\ Len(later) = Len(earlier) + 1
    /\ SubSeq(later, 1, Len(earlier)) = earlier

\* `later` is `earlier` with the object at one place replaced by an object of
\* the same id
OneReplaced(earlier, later) ==
    /\ Len(later) = Len(earlier)
    /\ \E k \in 1..Len(earlier) :
          /\ later[k].id = earlier[k].id
          /\ \A j \in 1..Len(earlier) : j # k => later[j] = earlier[j]

\* C34: of two consecutive snapshots of the history the later one is the
\* earlier one with exactly one object appended at the end, or with exactly one
\* object replaced in its place by an object of the same id: no operation, the
\* eraser included, removes or reorders objects, and the number of objects never
\* decreases along the history
C34_SnapshotsGrow ==
    \A n \in 1..(Len(history) - 1) :
        /\ OneAppended(history[n], history[n + 1])
              \/ OneReplaced(history[n], history[n + 1])
        /\ Len(history[n + 1]) >= Len(history[n])

\* a Text was committed and then replaced in its place by an edited one
C34_Witness ==
    /\ Len(history) = 3
    /\ OneAppended(history[1], history[2])
    /\ OneReplaced(history[2], history[3])
    /\ history[3] # history[2]

(* What the selection points at *)

\* C35: in every reachable state a selectedObjectId that is not null is the id
\* of an object of the current snapshot, also after an undo, a redo or a clear
C35_SelectionInCurrentSet ==
    selectedObjectId # NoId => HasId(objects, selectedObjectId)

(* Where an edited text goes *)

\* the step ends an edit (blur or Escape), of whatever overlay
EditEnds ==
    /\ et # Null
    /\ \E n \in 1..Len(ev'.notes) : ev'.notes[n] = "onDone"

\* an edit that ends with a text that is not blank replaces the object of its
\* id in the current snapshot, and is appended last if there is none
EditedTextPlaced ==
    (EditEnds /\ ~Blank(et.text)) =>
        /\ OneSnapshot
        /\ IF HasId(objects, editingText.id)
           THEN TextReplaced(objects, objects', editingText.id, et.text)
           ELSE TextAdded(objects, objects', editingText.id, et.text)

\* C36: when a text edit ends with a text that is not blank, the object of the
\* edited id in the current snapshot is replaced in its place, the snapshot
\* keeping its length; if there is no such object the text is appended as the
\* new last object, which is also what happens when an undo or a clear took the
\* edited object out of the current set while its overlay was open
C36_EditedTextPlaced == [][EditedTextPlaced]_vars

\* the edit of a committed Text has just ended by adding the Text again: an
\* undo or a clear had taken it out of the current set while the overlay was open
C36_Witness ==
    /\ ev.op = "dblClick"
    /\ ev.notes = <<"onUpdate", "onDone">>
    /\ Len(ev.calls) = 2
    /\ ev.calls[1].op = "updateObject"
    /\ ev.calls[2].op = "addObject"
    /\ ~Blank(ev.calls[2].obj.text)
    /\ objects # <<>>
    /\ objects[Len(objects)] = ev.calls[2].obj

(* Whitespace-only text *)

\* the edit of a newly placed text ends with a blank text, and commits nothing;
\* `always` leaves out that no object of the current snapshot has the text's id
BlankPlacementDiscarded(always) ==
    (/\ PlacedEditEnds
     /\ et # Null
     /\ Blank(et.text)
     /\ always \/ ~HasId(objects, editingText.id))
    => /\ UNCHANGED <<history, currentStep>>
       /\ editingText' = Null

\* C37: a text edit that ends with a text of whitespace only is treated like one
\* that ends with the empty text: the host discards it, and for a newly placed
\* text no snapshot is appended
C37_BlankTextDiscarded == [][BlankPlacementDiscarded(TRUE)]_vars

\* what the code does keep: the same for a placed text whose id no object of the
\* current snapshot has
BlankNewTextDiscarded == [][BlankPlacementDiscarded(FALSE)]_vars

(* A pointer-down during a text edit *)

\* a pointer-down on the stage while a text-edit instance exists changes nothing
\* on the canvas and nothing in the history
DownWhileEditingIgnored ==
    \A pos \in Pos \cup {Unresolved}, empty \in BOOLEAN :
        (editingText # Null /\ handleMouseDown(pos, empty))
        => UNCHANGED <<isDrawing, previewLine, editingText, et, selectedObjectId,
                       history, currentStep>>

\* C38: while a text-edit instance exists, a pointer-down on the canvas, with
\* whatever tool, starts no preview line, makes no second text instance and
\* changes neither the selection nor the history
C38_DownWhileEditingIgnored == [][DownWhileEditingIgnored]_vars

\* a text-edit instance is open while an object is selected and a drawing tool
\* or the text tool is active, and the pointer can go down on the stage
C38_Witness ==
    /\ editingText # Null
    /\ selectedObjectId # NoId
    /\ activeTool \in {"pencil", "text"}
    /\ previewLine = Null
    /\ ENABLED handleMouseDown(CHOOSE p \in Pos : TRUE, TRUE)

(* Leaving EDITING *)

\* the step takes the overlay out of EDITING
LeavesEditing ==
    /\ et # Null
    /\ et.interactionMode = "EDITING"
    /\ et' = Null \/ et'.interactionMode # "EDITING"

\* the step takes into EDITING an overlay that was mounted in EDITING, by a
\* placement, and is still the same mount: it has left EDITING since, and onDone,
\* which removes the overlay, has not been called
EntersEditingAgain ==
    /\ et # Null
    /\ origin = "placement"
    /\ et.interactionMode # "EDITING"
    /\ et' # Null
    /\ et'.interactionMode = "EDITING"

\* the step that leaves EDITING is the only one whose mode-change effect can
\* call onDone: every such step calls it
LeavingCallsDone ==
    [][LeavesEditing => \E n \in 1..Len(ev'.notes) : ev'.notes[n] = "onDone"]_vars

\* C39: whenever the text sub-machine leaves EDITING, by a blur, by Escape or by
\* a mouse-down on a resize handle, onDone is called before the sub-machine can
\* enter EDITING again; onDone removes the overlay, so that no overlay mounted in
\* EDITING ever enters EDITING a second time
C39_DoneBeforeEditingAgain == [][~EntersEditingAgain]_vars

(* The cascade of the layout effects *)

\* Measurement functions of the text and the font size: that of the model, a
\* constant one, and one that is neither proportional to the text nor square
Measurements == 1..3
MeasureBy(k, text, fontSize) ==
    CASE k = 1 -> Measure(text, fontSize)
      [] k = 2 -> [width |-> 0, height |-> 0]
      [] OTHER -> [width |-> fontSize + Len(text), height |-> 2 * fontSize + 1]

\* the measurement effect under measurement k
SizeEffect(k, state) ==
    LET m == MeasureBy(k, state.text, state.fontSize)
    IN IF k = 1 THEN MeasureEffect(state)
       ELSE IF m.width # state.width \/ m.height # state.height
       THEN reducer(state, [type |-> "UPDATE_CONTAINER_SIZE",
                            width |-> m.width, height |-> m.height])
       ELSE state

\* One render: both layout effects run on the rendered state, the measurement
\* effect first, and the actions they dispatch are reduced, in this order, into
\* the state of the next render
Render(k, state, inter, ps) ==
    LET sized  == SizeEffect(k, state)
        anchor == AnchorEffect(state, inter, ps)
    IN [et |-> [sized EXCEPT !.x = anchor.et.x, !.y = anchor.et.y],
        prevSize |-> anchor.prevSize]

\* the renders a cascade is followed for
MaxRenders == 3

\* The renders that follow an event, up to the first one whose effects dispatch
\* nothing: how many there are (one more than MaxRenders if there are more), and
\* what they leave
RECURSIVE Cascade(_, _, _, _, _)
Cascade(k, state, inter, ps, n) ==
    LET next == Render(k, state, inter, ps)
    IN IF next.et = state \/ n > MaxRenders
       THEN [renders |-> n, et |-> next.et, prevSize |-> next.prevSize]
       ELSE Cascade(k, next.et, inter, next.prevSize, n + 1)

\* after this action the effects come to rest within MaxRenders renders, under
\* every measurement, and under the model's they leave what Settle computes
ComesToRest(action, inter) ==
    /\ \A k \in Measurements :
          Cascade(k, reducer(et, action), inter, prevSize, 1).renders <= MaxRenders
    /\ LET rest == Cascade(1, reducer(et, action), inter, prevSize, 1)
       IN [et |-> rest.et, prevSize |-> rest.prevSize]
             = Settle(reducer(et, action), inter, prevSize)

\* the font sizes a pointer move or a key can ask for
FontSizesAsked ==
    {MIN_FONT_SIZE, MAX_FONT_SIZE}
        \cup {f \in FontSizes : Abs(f - et.fontSize) <= 2}

\* C40: after any single event of the text sub-machine the cascade of the
\* effects, measurement, UPDATE_CONTAINER_SIZE, anchor correction and
\* UPDATE_POSITION, reaches within a bounded number of renders a state in which
\* no effect dispatches a further action, for any measurement function of the
\* text and the font size
C40_CascadeComesToRest ==
    et # Null =>
        /\ \A key \in Keys, shiftKey \in BOOLEAN, ctrlKey \in BOOLEAN :
              ComesToRest(KeyAction(key, shiftKey, ctrlKey), interaction)
        /\ \A text \in Texts :
              ComesToRest([type |-> "UPDATE_TEXT", text |-> text], interaction)
        /\ \A fontSize \in FontSizesAsked :
              ComesToRest([type |-> "UPDATE_FONT_SIZE", fontSize |-> fontSize],
                          interaction)
        /\ \A client \in ClientPoints :
              ComesToRest([type |-> "UPDATE_POSITION",
                           x |-> DraggedPosition(interaction, client).x,
                           y |-> DraggedPosition(interaction, client).y],
                          interaction)
        /\ \A direction \in Directions :
              ComesToRest([type |-> "START_INTERACTION", mode |-> "RESIZING"],
                          [interaction EXCEPT !.direction = direction])
        /\ ComesToRest([type |-> "START_INTERACTION", mode |-> "DRAGGING"],
                       [interaction EXCEPT !.direction = ""])
        /\ \A type \in {"START_EDIT", "END_EDIT", "END_INTERACTION"} :
              ComesToRest([type |-> type], interaction)

\* a pull at the top-left handle has made the font one size larger and the
\* anchor correction has moved the box; the move back would again need all the
\* renders: one that measures, one that corrects the anchor, and one in which
\* nothing is dispatched
C40_Witness ==
    /\ et # Null
    /\ et.interactionMode = "RESIZING"
    /\ interaction.direction = "top-left"
    /\ et.fontSize = interaction.startFontSize + 1
    /\ et.x < interaction.startBoxX
    /\ et.y < interaction.startBoxY
    /\ Cascade(1, reducer(et, [type |-> "UPDATE_FONT_SIZE",
                               fontSize |-> interaction.startFontSize]),
               interaction, prevSize, 1).renders = 3

====
